---- MODULE Spec2Model ----
(***************************************************************************)
(* The persistence store of the High Command API (src/src/database.py):    *)
(* the eight tables, the save_* operations that write them, the get_*      *)
(* accessors that read them, and the exception flow of every operation.    *)
(*                                                                         *)
(* Every operation is one action: it acquires a connection, runs its       *)
(* statements in one transaction, commits, releases the connection and     *)
(* returns.  The value it returns (or the exception it lets escape) is     *)
(* recorded in ret.  `now' is the clock: CURRENT_TIMESTAMP of a            *)
(* transaction and datetime.now(timezone.utc) of a call both read it.      *)
(* The SERIAL id column of the tables is not modelled (nothing reads it).  *)
(*                                                                         *)
(* Beside the store, the collector and the entry point that starts and     *)
(* stops it (src/src/poller.py), and the health endpoint of the read API.  *)
(***************************************************************************)
EXTENDS Integers, Sequences, FiniteSets, TLC

VARIABLES
    schema,         \* TRUE once the CREATE TABLE statements of _init_db are committed
    now,            \* the clock
    war_status,     \* append-only table: sequence of rows [data, timestamp]
    statistics,     \* append-only table: sequence of rows [data, timestamp]
    planet_status,  \* set of rows [planet_index, data, timestamp]
    campaigns,      \* set of rows [campaign_id, planet_index, status, data, timestamp]
    assignments,    \* set of rows [assignment_id, data, timestamp]
    dispatches,     \* set of rows [dispatch_id, data, timestamp]
    planet_events,  \* set of rows [event_id, planet_index, event_type, data, timestamp]
    system_status,  \* set of rows [key, value, timestamp]
    ret,            \* the last call: [op, args, fault, raised, result]
    hist,           \* history of the calls made so far (what the claims refer back to)
    cycle,          \* the collector cycle's planet loop: [phase, todo, ok]
    pool,           \* number of connections checked out of the pool
    calls,          \* the save_campaign call each thread has in flight
    collector,      \* the DataCollector: [state, is_running, in_cycle, done, fetched,
                    \* failed, cycles]
    main,           \* where the entry point (poller.py main) is
    proxy,          \* the Claude proxy: [CLAUDE_API_KEY, log of the requests handled]
    db,             \* the Database object's pool: [_pool, pools created, threads in _get_pool]
    nops            \* number of operations performed, where a specification counts them

tables == <<war_status, statistics, planet_status, campaigns, assignments,
            dispatches, planet_events, system_status>>
vars == <<schema, now, war_status, statistics, planet_status, campaigns, assignments,
          dispatches, planet_events, system_status, ret, hist, cycle, pool, calls,
          collector, main, proxy, db, nops>>

(***************************************************************************)
(* Bounds of the model.                                                    *)
(***************************************************************************)
MaxTime == 2        \* the clock runs 0..MaxTime
MaxBatch == 2       \* a batch holds at most MaxBatch items
MaxConn == 2        \* maxconn of the connection pool (POOL_MAX_CONN)
MaxOps == 2         \* Spec performs at most MaxOps operations
MaxCycles == 2      \* the collector runs at most MaxCycles cycles

\* The natural keys the operations are called with: 0, the one key whose
\* Python truth value is false, and one other.
Keys == {0, 1}

(***************************************************************************)
(* Python values.  A dict is a function from its keys; d.get(k) is None    *)
(* when k is no key of d.  Truthy is Python's truth value of `if v:'.      *)
(***************************************************************************)
PyNone == [t |-> "none"]
PyInt(n) == [t |-> "int", v |-> n]
PyStr(s) == [t |-> "str", v |-> s]
PyBool(b) == [t |-> "bool", v |-> b]
PyList(seq) == [t |-> "list", v |-> seq]
PyDict(d) == [t |-> "dict", v |-> d]
PyTrue == PyBool(TRUE)
PyFalse == PyBool(FALSE)

PyGet(d, k) == IF k \in DOMAIN d THEN d[k] ELSE PyNone

PyGetDefault(d, k, default) == IF k \in DOMAIN d THEN d[k] ELSE default

Truthy(v) ==
    CASE v.t = "none" -> FALSE
      [] v.t = "int" -> v.v # 0
      [] v.t = "str" -> v.v # ""
      [] v.t = "bool" -> v.v
      [] v.t = "list" -> v.v # <<>>
      [] OTHER -> TRUE

(***************************************************************************)
(* json.dumps on the way in, the JSONB column's value on the way out.      *)
(* A payload is a JSON document fetched from the upstream API; the text    *)
(* json.dumps writes is parsed by the JSONB column and handed back as a    *)
(* dict by the driver, or as a str that the accessor json.loads.  A        *)
(* payload json.dumps cannot serialise is the fault "dumps" below.         *)
(***************************************************************************)
json_dumps(data) == [json |-> data]

json_loads(text) == text.json

Jsonb(text) == json_loads(text)

RowData(col) == IF "json" \in DOMAIN col THEN json_loads(col) ELSE col

(***************************************************************************)
(* Faults and the exception flow of an operation.                          *)
(*                                                                         *)
(*   try:                                                                  *)
(*       conn = self._get_connection()          fault "getconn"            *)
(*       try:                                                              *)
(*           cursor.execute(..json.dumps(..))   faults "dumps", "execute"  *)
(*           conn.commit()                      fault "commit"             *)
(*           return True                                                   *)
(*       finally:                                                          *)
(*           conn.close()                       fault "putconn"            *)
(*   except Exception as e:                                                *)
(*       return False                                                      *)
(*                                                                         *)
(* A fault is [at |-> point, item |-> i]; item is the index of the batch   *)
(* item whose json.dumps or execute fails (1 for a single statement).      *)
(* "init_..." is a fault inside save_war_status's call of _init_db.       *)
(***************************************************************************)
NoFault == [at |-> "none", item |-> 0]

Fault(point, i) == [at |-> point, item |-> i]

SingleFaults ==
    {NoFault} \cup {Fault(p, 0) : p \in {"getconn", "commit", "putconn"}}
              \cup {Fault(p, 1) : p \in {"dumps", "execute"}}

BatchFaults ==
    {NoFault} \cup {Fault(p, 0) : p \in {"getconn", "commit", "putconn"}}
              \cup {Fault(p, i) : p \in {"dumps", "execute"}, i \in 1..MaxBatch}

\* The exception class a fault raises.
ExcOf(point) ==
    CASE point = "getconn" -> "PoolError"
      [] point = "dumps" -> "TypeError"
      [] point = "execute" -> "OperationalError"
      [] point = "commit" -> "OperationalError"
      [] point = "putconn" -> "PoolError"
      [] point = "no_table" -> "UndefinedTable"
      [] OTHER -> "NoExc"

\* The classes derived from psycopg2.Error.
PsycopgErrors == {"PoolError", "OperationalError", "UndefinedTable"}

\* The classes derived from Exception.
Exceptions == PsycopgErrors \cup {"TypeError", "ValueError", "AttributeError"}

\* `except psycopg2.Error': what a handler naming the driver's class would catch.
ExceptPsycopgError(exc) == exc \in PsycopgErrors

\* `except Exception as e': the handler of every operation.
ExceptException(exc) == exc \in Exceptions

(***************************************************************************)
(* One transaction, from _get_connection to conn.close().                  *)
(*                                                                         *)
(* Statement is the exception the i-th statement of an operation raises    *)
(* ("NoExc" when it runs): json.dumps is evaluated before execute is       *)
(* called, and execute fails when the table does not exist.  Txn is the    *)
(* exception that leaves the inner try/finally and whether the             *)
(* transaction was committed: conn.close() rolls back whatever was not     *)
(* committed, then returns the connection to the pool.                     *)
(***************************************************************************)
Statement(fault, i, schemaOk) ==
    IF fault.at = "dumps" /\ fault.item = i THEN ExcOf("dumps")
    ELSE IF ~schemaOk THEN ExcOf("no_table")
    ELSE IF fault.at = "execute" /\ fault.item = i THEN ExcOf("execute")
    ELSE "NoExc"

Txn(fault, stmtExc) ==
    IF fault.at = "getconn"
        THEN [exc |-> ExcOf("getconn"), committed |-> FALSE]
    ELSE IF stmtExc # "NoExc"
        THEN [exc |-> stmtExc, committed |-> FALSE]
    ELSE IF fault.at = "commit"
        THEN [exc |-> ExcOf("commit"), committed |-> FALSE]
    ELSE IF fault.at = "putconn"
        THEN [exc |-> ExcOf("putconn"), committed |-> TRUE]
    ELSE [exc |-> "NoExc", committed |-> TRUE]

\* A save whose `return True' would survive an exception of the finally
\* clause: the result follows the commit alone.
SaveReturnOfCommit(body) ==
    IF body.committed THEN [raised |-> FALSE, result |-> PyTrue]
    ELSE IF ExceptException(body.exc) THEN [raised |-> FALSE, result |-> PyFalse]
    ELSE [raised |-> TRUE, result |-> PyStr(body.exc)]

\* What the caller of a save_* operation gets.
SaveReturn(body) ==
    IF body.exc = "NoExc" THEN [raised |-> FALSE, result |-> PyTrue]
    ELSE IF ExceptException(body.exc) THEN [raised |-> FALSE, result |-> PyFalse]
    ELSE [raised |-> TRUE, result |-> PyStr(body.exc)]

\* An accessor without its handler: the exception reaches the caller.
ReadReturnUnhandled(body, value, onError) ==
    IF body.exc = "NoExc" THEN [raised |-> FALSE, result |-> value]
    ELSE [raised |-> TRUE, result |-> PyStr(body.exc)]

\* What the caller of a get_* accessor gets: `value' when nothing was raised,
\* `onError' (None or []) from the handler.
ReadReturn(body, value, onError) ==
    IF body.exc = "NoExc" THEN [raised |-> FALSE, result |-> value]
    ELSE IF ExceptException(body.exc) THEN [raised |-> FALSE, result |-> onError]
    ELSE [raised |-> TRUE, result |-> PyStr(body.exc)]

\* self._get_pool().getconn(): with every connection of the pool checked out
\* it raises PoolError at once, so a call made then is one whose fault is
\* "getconn".
getconn_unbounded(fault) == TRUE

getconn(fault) == pool >= MaxConn => fault.at = "getconn"

\* _PooledConnection.close(): rollback, then putconn; a putconn that raises
\* has not given the connection back.
putconn(fault) == IF fault.at = "putconn" THEN pool + 1 ELSE pool

\* What one call of an operation does to the pool: _get_connection() at its
\* start, conn.close() in its finally clause.  The call runs on its own, no
\* other call is in flight.
Connection(fault) ==
    /\ getconn(fault)
    /\ pool' = putconn(fault)
    /\ UNCHANGED calls

Call(op, args, fault, r) ==
    [op |-> op, args |-> args, fault |-> fault, raised |-> r.raised,
     result |-> r.result]


(***************************************************************************)
(* History of the calls, kept beside the store so that the properties can  *)
(* refer to earlier calls.  No operation reads it.                         *)
(*   rewritten   the tables in which an upsert has overwritten a row        *)
(*   lastOk      per planet, the [data, timestamp] of the last             *)
(*               save_planet_status that returned True (PyNone: none)      *)
(*   planetFail  some save_planet_status has returned False                *)
(*   reexpired   campaign ids whose active row was overwritten, payload    *)
(*               unchanged, by a save made after the payload's expiry      *)
(***************************************************************************)
HistInit ==
    [rewritten |-> {}, lastOk |-> [k \in Keys |-> PyNone], planetFail |-> FALSE,
     reexpired |-> {}]

Rewrite(h, table, present, key, committed) ==
    IF committed /\ key \in present
        THEN [h EXCEPT !.rewritten = @ \cup {table}]
        ELSE h

(***************************************************************************)
(* planet_status                                                           *)
(***************************************************************************)
PlanetPayloads == {[name |-> PyStr("X")], [name |-> PyStr("Y")]}

PlanetKeysOf(T) == {r.planet_index : r \in T}

\* INSERT INTO planet_status (planet_index, data) VALUES (%s, %s) with no
\* conflict clause and no unique index to stop it: what a plain insert would do.
InsertPlanetStatus(T, planet_index, text, ts) ==
    T \cup {[planet_index |-> planet_index, data |-> Jsonb(text), timestamp |-> ts]}

\* DELETE FROM planet_status, then the insert: only the new row is left.
ReplacePlanetStatus(T, planet_index, text, ts) ==
    {[planet_index |-> planet_index, data |-> Jsonb(text), timestamp |-> ts]}

\* INSERT ... ON CONFLICT (planet_index) DO NOTHING: the first row is kept.
UpsertPlanetStatusDoNothing(T, planet_index, text, ts) ==
    IF \E r \in T : r.planet_index = planet_index
        THEN T
        ELSE T \cup {[planet_index |-> planet_index, data |-> Jsonb(text),
                      timestamp |-> ts]}

\* INSERT ... ON CONFLICT (planet_index) DO UPDATE SET data = EXCLUDED.data,
\* timestamp = CURRENT_TIMESTAMP
UpsertPlanetStatus(T, planet_index, text, ts) ==
    IF \E r \in T : r.planet_index = planet_index
        THEN {IF r.planet_index = planet_index
                  THEN [r EXCEPT !.data = Jsonb(text), !.timestamp = ts]
                  ELSE r : r \in T}
        ELSE T \cup {[planet_index |-> planet_index, data |-> Jsonb(text),
                      timestamp |-> ts]}

\* The part of save_planet_status shared by a direct call and the collector's loop.
SavePlanetStatus(planet_index, data, fault) ==
    LET txn == Txn(fault, Statement(fault, 1, schema))
        r == SaveReturn(txn)
    IN  /\ planet_status' =
               IF txn.committed
                   THEN UpsertPlanetStatus(planet_status, planet_index,
                                           json_dumps(data), now)
                   ELSE planet_status
        /\ Connection(fault)
        /\ ret' = Call("save_planet_status", <<planet_index, data>>, fault, r)
        /\ hist' = LET h == Rewrite(hist, "planet_status", PlanetKeysOf(planet_status),
                                    planet_index, txn.committed)
                   IN  IF ~r.raised /\ r.result = PyTrue
                           THEN [h EXCEPT !.lastOk[planet_index] =
                                              [data |-> data, timestamp |-> now]]
                           ELSE [h EXCEPT !.planetFail = TRUE]
        /\ UNCHANGED <<schema, now, war_status, statistics, campaigns, assignments,
                       dispatches, planet_events, system_status>>

save_planet_status(planet_index, data, fault) ==
    /\ SavePlanetStatus(planet_index, data, fault)
    /\ UNCHANGED cycle

\* The rows of S with the greatest timestamp.
Latest(S) == {r \in S : \A q \in S : q.timestamp <= r.timestamp}

\* SELECT data FROM planet_status WHERE planet_index = %s
\* ORDER BY timestamp DESC LIMIT 1, then fetchone()
SelectPlanetStatus(T, planet_index) ==
    LET rows == {r \in T : r.planet_index = planet_index}
    IN  IF rows = {} THEN PyNone ELSE (CHOOSE r \in Latest(rows) : TRUE).data

get_planet_status(planet_index, fault) ==
    LET txn == Txn(fault, Statement(fault, 1, schema))
        found == SelectPlanetStatus(planet_status, planet_index)
        value == IF found = PyNone THEN PyNone ELSE RowData(found)
    IN  /\ Connection(fault)
        /\ ret' = Call("get_planet_status", <<planet_index>>, fault,
                       ReadReturn(txn, value, PyNone))
        /\ UNCHANGED <<schema, now, tables, hist, cycle>>

\* ORDER BY planet_index ASC
RECURSIVE OrderByPlanetIndex(_)
OrderByPlanetIndex(S) ==
    IF S = {} THEN <<>>
    ELSE LET first == CHOOSE r \in S : \A q \in S : r.planet_index <= q.planet_index
         IN  <<first>> \o OrderByPlanetIndex(S \ {first})

\* SELECT DISTINCT timestamp FROM planet_status ORDER BY timestamp DESC LIMIT 1
SelectLatestTimestamp(T) ==
    IF T = {} THEN PyNone
    ELSE PyInt(CHOOSE t \in {r.timestamp : r \in T} :
                   \A r \in T : r.timestamp <= t)

\* The second query without its WHERE clause.
SelectPlanetsAll(T, ts) == OrderByPlanetIndex(T)

\* SELECT data FROM planet_status WHERE timestamp = %s ORDER BY planet_index ASC
SelectPlanetsAt(T, ts) == OrderByPlanetIndex({r \in T : r.timestamp = ts})

LatestPlanetsSnapshot(T) ==
    LET result == SelectLatestTimestamp(T) IN
    IF result = PyNone THEN PyNone
    ELSE LET results == SelectPlanetsAt(T, result.v)
             planets == [i \in 1..Len(results) |-> RowData(results[i].data)]
         IN  IF planets # <<>> THEN PyList(planets) ELSE PyNone

get_latest_planets_snapshot(fault) ==
    LET txn == Txn(fault, Statement(fault, 1, schema))
    IN  /\ Connection(fault)
        /\ ret' = Call("get_latest_planets_snapshot", <<>>, fault,
                       ReadReturn(txn, LatestPlanetsSnapshot(planet_status), PyNone))
        /\ UNCHANGED <<schema, now, tables, hist, cycle>>

(***************************************************************************)
(* The collector cycle's planet loop (src/collector.py is not part of the  *)
(* sources; database.py:10 records that the poller makes one               *)
(* save_planet_status call per planet in each cycle).  A cycle saves every *)
(* planet of Keys in index order, each in its own call and transaction;    *)
(* cycle.ok tells whether every save of the cycle returned True.           *)
(***************************************************************************)
cycle_start ==
    /\ cycle.phase \in {"idle", "done"}
    /\ cycle' = [phase |-> "planets", todo |-> Keys, ok |-> TRUE]
    /\ UNCHANGED <<schema, now, tables, ret, hist, pool, calls>>

cycle_save_planet(data, fault) ==
    /\ cycle.phase = "planets"
    /\ LET planet_index == CHOOSE k \in cycle.todo : \A j \in cycle.todo : k <= j
           rest == cycle.todo \ {planet_index}
       IN  /\ SavePlanetStatus(planet_index, data, fault)
           /\ cycle' = [phase |-> IF rest = {} THEN "done" ELSE "planets",
                        todo |-> rest,
                        ok |-> cycle.ok /\ ~ret'.raised /\ ret'.result = PyTrue]

(***************************************************************************)
(* campaigns                                                               *)
(*                                                                         *)
(* Time is counted in hours since 2025-01-01T00:00:00Z.  IsoFormat gives,  *)
(* for each ISO 8601 text used as an expiresAt, the fields                 *)
(* datetime.fromisoformat reads from it: the wall-clock hour and the UTC   *)
(* offset ("none" for a naive text); the suffix Z is what                  *)
(* _parse_expiration_time rewrites to +00:00 first.  Any other text makes  *)
(* fromisoformat raise ValueError; a value with no replace method (an      *)
(* int) raises AttributeError.                                             *)
(***************************************************************************)
IsoFormat ==
    [x \in {"2025-01-01T01:00:00Z", "2025-01-01T02:00:00",
            "2025-01-01T04:00:00+02:00"} |->
        CASE x = "2025-01-01T01:00:00Z" -> [wall |-> 1, suffix |-> "Z"]
          [] x = "2025-01-01T02:00:00" -> [wall |-> 2, suffix |-> ""]
          [] x = "2025-01-01T04:00:00+02:00" -> [wall |-> 4, suffix |-> "+02:00"]]

\* str.replace('Z', '+00:00') on the suffix of the text.
ReplaceZ(suffix) == IF suffix = "Z" THEN "+00:00" ELSE suffix

\* The tzinfo fromisoformat builds, as its utcoffset in hours (PyNone: naive).
TzInfo(suffix) ==
    CASE suffix = "+00:00" -> PyInt(0)
      [] suffix = "+02:00" -> PyInt(2)
      [] OTHER -> PyNone

\* _parse_expiration_time: an aware datetime [wall, offset], or PyNone.
parse_expiration_time(expiration_time) ==
    IF expiration_time.t # "str" THEN PyNone                \* AttributeError
    ELSE IF expiration_time.v \notin DOMAIN IsoFormat THEN PyNone   \* ValueError
    ELSE LET f == IsoFormat[expiration_time.v]
             tzinfo == TzInfo(ReplaceZ(f.suffix))
         IN  [t |-> "datetime", wall |-> f.wall,
              offset |-> IF tzinfo = PyNone THEN 0 ELSE tzinfo.v]

\* now <= exp_dt: the comparison with the boundary on the other side.
NowNotAfter(n, exp_dt) == n <= exp_dt.wall - exp_dt.offset

\* now < exp_dt, for the aware datetimes now (UTC) and exp_dt.
NowBefore(n, exp_dt) == n < exp_dt.wall - exp_dt.offset

\* The status save_campaign derives from the payload.
\* The derivation without its two `else' branches: the initial "unknown" stays
\* when expiresAt is absent, empty or unparseable.
CampaignStatusUnknown(data, n) ==
    LET expiration_time == PyGet(data, "expiresAt") IN
    IF Truthy(expiration_time)
        THEN LET exp_dt == parse_expiration_time(expiration_time) IN
             IF exp_dt # PyNone
                 THEN IF NowBefore(n, exp_dt) THEN "active" ELSE "expired"
                 ELSE "unknown"
        ELSE "unknown"

CampaignStatus(data, n) ==
    LET expiration_time == PyGet(data, "expiresAt") IN
    IF Truthy(expiration_time)
        THEN LET exp_dt == parse_expiration_time(expiration_time) IN
             IF exp_dt # PyNone
                 THEN IF NowBefore(n, exp_dt) THEN "active" ELSE "expired"
                 ELSE "active"
        ELSE "active"

ExpiresAtValues ==
    {PyStr(""), PyStr("not-a-date"), PyInt(7)} \cup {PyStr(x) : x \in DOMAIN IsoFormat}

CampaignPayloads ==
    {[name |-> PyStr("C")]} \cup
    {[name |-> PyStr("C"), expiresAt |-> e] : e \in ExpiresAtValues}

CampaignKeysOf(T) == {r.campaign_id : r \in T}

\* The upsert with status left out of the DO UPDATE SET list.
UpsertCampaignKeepStatus(T, campaign_id, planet_index, status, text, ts) ==
    IF \E r \in T : r.campaign_id = campaign_id
        THEN {IF r.campaign_id = campaign_id
                  THEN [r EXCEPT !.planet_index = planet_index, !.data = Jsonb(text),
                                 !.timestamp = ts]
                  ELSE r : r \in T}
        ELSE T \cup {[campaign_id |-> campaign_id, planet_index |-> planet_index,
                      status |-> status, data |-> Jsonb(text), timestamp |-> ts]}

\* INSERT ... ON CONFLICT (campaign_id) DO UPDATE SET planet_index, status, data,
\* timestamp = CURRENT_TIMESTAMP
UpsertCampaign(T, campaign_id, planet_index, status, text, ts) ==
    LET row == [campaign_id |-> campaign_id, planet_index |-> planet_index,
                status |-> status, data |-> Jsonb(text), timestamp |-> ts]
    IN  IF \E r \in T : r.campaign_id = campaign_id
            THEN {IF r.campaign_id = campaign_id THEN row ELSE r : r \in T}
            ELSE T \cup {row}

\* The payload's expiry instant has been reached at time n (for the history only).
Expired(data, n) ==
    /\ "expiresAt" \in DOMAIN data
    /\ data.expiresAt.t = "str"
    /\ data.expiresAt.v \in DOMAIN IsoFormat
    /\ CampaignStatus(data, n) = "expired"

save_campaign(campaign_id, planet_index, data, fault) ==
    LET status == CampaignStatus(data, now)
        txn == Txn(fault, Statement(fault, 1, schema))
        r == SaveReturn(txn)
        old == {q \in campaigns : q.campaign_id = campaign_id}
    IN  /\ campaigns' =
               IF txn.committed
                   THEN UpsertCampaign(campaigns, campaign_id, planet_index, status,
                                       json_dumps(data), now)
                   ELSE campaigns
        /\ Connection(fault)
        /\ ret' = Call("save_campaign", <<campaign_id, planet_index, data>>, fault, r)
        /\ hist' = LET h == Rewrite(hist, "campaigns", CampaignKeysOf(campaigns),
                                    campaign_id, txn.committed)
                   IN  IF /\ txn.committed
                          /\ \E q \in old : q.data = data /\ q.status = "active"
                          /\ Expired(data, now)
                           THEN [h EXCEPT !.reexpired = @ \cup {campaign_id}]
                           ELSE h
        /\ UNCHANGED <<schema, now, war_status, statistics, planet_status, assignments,
                       dispatches, planet_events, system_status, cycle>>

\* ORDER BY timestamp DESC: every order of the rows that the clause allows
\* (rows with equal timestamps come in any order).
RECURSIVE OrderByTimestampDesc(_)
OrderByTimestampDesc(S) ==
    IF S = {} THEN {<<>>}
    ELSE UNION {{<<r>> \o rest : rest \in OrderByTimestampDesc(S \ {r})} :
                   r \in Latest(S)}

\* SELECT data FROM campaigns WHERE status = 'active' ORDER BY timestamp DESC
SelectActiveCampaigns(T) == OrderByTimestampDesc({r \in T : r.status = "active"})

\* The filter without the re-check: every stored-active campaign is kept.
StillActiveUnchecked(campaign, n) == TRUE

\* The filter of get_active_campaigns: keep a campaign unless its expiresAt
\* parses and now is not before it.
StillActive(campaign, n) ==
    LET expiration_time == PyGet(campaign, "expiresAt") IN
    IF Truthy(expiration_time)
        THEN LET exp_dt == parse_expiration_time(expiration_time) IN
             exp_dt = PyNone \/ NowBefore(n, exp_dt)
        ELSE TRUE

RECURSIVE FilterActive(_, _)
FilterActive(campaignList, n) ==
    IF campaignList = <<>> THEN <<>>
    ELSE (IF StillActive(Head(campaignList), n) THEN <<Head(campaignList)>> ELSE <<>>)
             \o FilterActive(Tail(campaignList), n)

get_active_campaigns(fault) ==
    \E results \in SelectActiveCampaigns(campaigns) :
        LET txn == Txn(fault, Statement(fault, 1, schema))
            found == [i \in 1..Len(results) |-> RowData(results[i].data)]
        IN  /\ Connection(fault)
            /\ ret' = Call("get_active_campaigns", <<>>, fault,
                           ReadReturn(txn, PyList(FilterActive(found, now)),
                                      PyList(<<>>)))
            /\ UNCHANGED <<schema, now, tables, hist, cycle>>

(***************************************************************************)
(* assignments, dispatches, planet_events: the single saves.               *)
(***************************************************************************)
\* INSERT ... ON CONFLICT (assignment_id) DO UPDATE SET data, timestamp
UpsertAssignment(T, assignment_id, text, ts) ==
    LET row == [assignment_id |-> assignment_id, data |-> Jsonb(text),
                timestamp |-> ts]
    IN  IF \E r \in T : r.assignment_id = assignment_id
            THEN {IF r.assignment_id = assignment_id THEN row ELSE r : r \in T}
            ELSE T \cup {row}

\* INSERT ... ON CONFLICT (dispatch_id) DO UPDATE SET data, timestamp
UpsertDispatch(T, dispatch_id, text, ts) ==
    LET row == [dispatch_id |-> dispatch_id, data |-> Jsonb(text), timestamp |-> ts]
    IN  IF \E r \in T : r.dispatch_id = dispatch_id
            THEN {IF r.dispatch_id = dispatch_id THEN row ELSE r : r \in T}
            ELSE T \cup {row}

\* INSERT ... ON CONFLICT (event_id) DO UPDATE SET planet_index, event_type, data,
\* timestamp
UpsertPlanetEvent(T, event_id, planet_index, event_type, text, ts) ==
    LET row == [event_id |-> event_id, planet_index |-> planet_index,
                event_type |-> event_type, data |-> Jsonb(text), timestamp |-> ts]
    IN  IF \E r \in T : r.event_id = event_id
            THEN {IF r.event_id = event_id THEN row ELSE r : r \in T}
            ELSE T \cup {row}

\* INSERT ... ON CONFLICT (key) DO UPDATE SET value, timestamp
UpsertSystemStatus(T, key, value, ts) ==
    LET row == [key |-> key, value |-> value, timestamp |-> ts]
    IN  IF \E r \in T : r.key = key
            THEN {IF r.key = key THEN row ELSE r : r \in T}
            ELSE T \cup {row}

save_assignment(assignment_id, data, fault) ==
    LET txn == Txn(fault, Statement(fault, 1, schema)) IN
    /\ assignments' =
           IF txn.committed
               THEN UpsertAssignment(assignments, assignment_id, json_dumps(data), now)
               ELSE assignments
    /\ Connection(fault)
    /\ ret' = Call("save_assignment", <<assignment_id, data>>, fault, SaveReturn(txn))
    /\ hist' = Rewrite(hist, "assignments", {r.assignment_id : r \in assignments},
                       assignment_id, txn.committed)
    /\ UNCHANGED <<schema, now, war_status, statistics, planet_status, campaigns,
                   dispatches, planet_events, system_status, cycle>>

save_dispatch(dispatch_id, data, fault) ==
    LET txn == Txn(fault, Statement(fault, 1, schema)) IN
    /\ dispatches' =
           IF txn.committed
               THEN UpsertDispatch(dispatches, dispatch_id, json_dumps(data), now)
               ELSE dispatches
    /\ Connection(fault)
    /\ ret' = Call("save_dispatch", <<dispatch_id, data>>, fault, SaveReturn(txn))
    /\ hist' = Rewrite(hist, "dispatches", {r.dispatch_id : r \in dispatches},
                       dispatch_id, txn.committed)
    /\ UNCHANGED <<schema, now, war_status, statistics, planet_status, campaigns,
                   assignments, planet_events, system_status, cycle>>

save_planet_event(event_id, planet_index, event_type, data, fault) ==
    LET txn == Txn(fault, Statement(fault, 1, schema)) IN
    /\ planet_events' =
           IF txn.committed
               THEN UpsertPlanetEvent(planet_events, event_id, planet_index, event_type,
                                      json_dumps(data), now)
               ELSE planet_events
    /\ Connection(fault)
    /\ ret' = Call("save_planet_event", <<event_id, planet_index, event_type, data>>,
                   fault, SaveReturn(txn))
    /\ hist' = Rewrite(hist, "planet_events", {r.event_id : r \in planet_events},
                       event_id, txn.committed)
    /\ UNCHANGED <<schema, now, war_status, statistics, planet_status, campaigns,
                   assignments, dispatches, system_status, cycle>>

update_system_status(key, value, fault) ==
    LET txn == Txn(fault, Statement(fault, 1, schema)) IN
    /\ system_status' =
           IF txn.committed
               THEN UpsertSystemStatus(system_status, key, value, now)
               ELSE system_status
    /\ Connection(fault)
    /\ ret' = Call("update_system_status", <<key, value>>, fault, SaveReturn(txn))
    /\ hist' = Rewrite(hist, "system_status", {r.key : r \in system_status},
                       key, txn.committed)
    /\ UNCHANGED <<schema, now, war_status, statistics, planet_status, campaigns,
                   assignments, dispatches, planet_events, cycle>>

(***************************************************************************)
(* war_status, statistics: the append-only tables.  save_war_status first  *)
(* calls _init_db, which creates the tables in a transaction of its own    *)
(* and swallows every exception: a fault "init_..." happens inside it.     *)
(***************************************************************************)
InitDbFaults ==
    {Fault(p, 0) : p \in {"init_getconn", "init_execute", "init_commit", "init_putconn"}}

\* _init_db: TRUE when its CREATE TABLE IF NOT EXISTS statements are committed.
init_db(fault) ==
    /\ pool < MaxConn
    /\ fault.at \notin {"init_getconn", "init_execute", "init_commit"}

\* The connection of _init_db: conn.close() is the last statement of its try
\* body, so an exception after _get_connection() leaves the connection
\* checked out.
init_db_close(fault) ==
    IF fault.at \in {"init_execute", "init_commit", "init_putconn"}
        THEN pool + 1 ELSE pool

save_war_status(data, fault) ==
    LET created == schema \/ init_db(fault)
        exhausted == init_db_close(fault) >= MaxConn
        txn == Txn(IF exhausted THEN Fault("getconn", 0) ELSE fault,
                   Statement(fault, 1, created))
    IN  /\ getconn(fault)
        /\ pool' = IF exhausted THEN init_db_close(fault)
                   ELSE IF fault.at = "putconn" THEN pool + 1
                   ELSE init_db_close(fault)
        /\ UNCHANGED calls
        /\ schema' = created
        /\ war_status' =
               IF txn.committed
                   THEN Append(war_status, [data |-> Jsonb(json_dumps(data)),
                                            timestamp |-> now])
                   ELSE war_status
        /\ ret' = Call("save_war_status", <<data>>, fault, SaveReturn(txn))
        /\ UNCHANGED <<now, statistics, planet_status, campaigns, assignments,
                       dispatches, planet_events, system_status, hist, cycle>>

save_statistics(data, fault) ==
    LET txn == Txn(fault, Statement(fault, 1, schema)) IN
    /\ statistics' =
           IF txn.committed
               THEN Append(statistics, [data |-> Jsonb(json_dumps(data)),
                                        timestamp |-> now])
               ELSE statistics
    /\ Connection(fault)
    /\ ret' = Call("save_statistics", <<data>>, fault, SaveReturn(txn))
    /\ UNCHANGED <<schema, now, war_status, planet_status, campaigns, assignments,
                   dispatches, planet_events, system_status, hist, cycle>>

(***************************************************************************)
(* The batch saves: one connection, one loop over the items, one commit    *)
(* after the loop.  An item is executed when the loop's `if' lets it       *)
(* through; BatchLoop runs the items from the i-th on and stops at the     *)
(* first statement that raises.                                            *)
(***************************************************************************)
\* The planet index read under the snake_case spelling only.
EventPlanetIndexSnake(event) == PyGet(event, "planet_index")

\* planet_index = event.get("planet_index") if "planet_index" in event
\*                else event.get("planetIndex")
EventPlanetIndex(event) ==
    IF "planet_index" \in DOMAIN event THEN PyGet(event, "planet_index")
    ELSE PyGet(event, "planetIndex")

\* event_type = event.get("event_type") if "event_type" in event
\*              else event.get("eventType", "unknown")
EventType(event) ==
    IF "event_type" \in DOMAIN event THEN PyGet(event, "event_type")
    ELSE PyGetDefault(event, "eventType", PyStr("unknown"))

\* `if assignment_id:', `if dispatch_id:', `if event_id and planet_index:'
Executes(table, item) ==
    IF table = "planet_events"
        THEN Truthy(PyGet(item, "id")) /\ Truthy(EventPlanetIndex(item))
        ELSE Truthy(PyGet(item, "id"))

\* The cursor.execute of one item.
ExecuteItem(table, T, item, ts) ==
    CASE table = "assignments" ->
             UpsertAssignment(T, PyGet(item, "id").v, json_dumps(item), ts)
      [] table = "dispatches" ->
             UpsertDispatch(T, PyGet(item, "id").v, json_dumps(item), ts)
      [] table = "planet_events" ->
             UpsertPlanetEvent(T, PyGet(item, "id").v, EventPlanetIndex(item).v,
                               EventType(item), json_dumps(item), ts)

RECURSIVE BatchLoop(_, _, _, _, _, _)
BatchLoop(table, T, data, i, fault, ts) ==
    IF i > Len(data) THEN [rows |-> T, exc |-> "NoExc"]
    ELSE IF Executes(table, data[i])
        THEN LET exc == Statement(fault, i, schema) IN
             IF exc # "NoExc" THEN [rows |-> T, exc |-> exc]
             ELSE BatchLoop(table, ExecuteItem(table, T, data[i], ts), data, i + 1,
                            fault, ts)
    ELSE BatchLoop(table, T, data, i + 1, fault, ts)

\* A connection in autocommit mode: what was written stays written.
NoRollback(before, written) == written

\* conn.close() on a transaction that was not committed: self._conn.rollback().
Rollback(before, written) == before

\* The batch's transaction: the table after it and what the caller gets.
Batch(table, T, data, fault, ts) ==
    LET loop == BatchLoop(table, T, data, 1, fault, ts)
        txn == Txn(fault, loop.exc)
    IN  [rows |-> IF txn.committed THEN loop.rows ELSE Rollback(T, loop.rows),
         return |-> SaveReturn(txn)]

\* A fault of a statement is the fault of an item that is executed.
BatchFault(table, data, fault) ==
    fault.at \in {"dumps", "execute"} =>
        /\ fault.item \in 1..Len(data)
        /\ Executes(table, data[fault.item])

save_assignments(data, fault) ==
    /\ BatchFault("assignments", data, fault)
    /\ LET batch == Batch("assignments", assignments, data, fault, now) IN
       /\ assignments' = batch.rows
       /\ Connection(fault)
       /\ ret' = Call("save_assignments", <<data>>, fault, batch.return)
    /\ UNCHANGED <<schema, now, war_status, statistics, planet_status, campaigns,
                   dispatches, planet_events, system_status, hist, cycle>>

save_dispatches(data, fault) ==
    /\ BatchFault("dispatches", data, fault)
    /\ LET batch == Batch("dispatches", dispatches, data, fault, now) IN
       /\ dispatches' = batch.rows
       /\ Connection(fault)
       /\ ret' = Call("save_dispatches", <<data>>, fault, batch.return)
    /\ UNCHANGED <<schema, now, war_status, statistics, planet_status, campaigns,
                   assignments, planet_events, system_status, hist, cycle>>

save_planet_events(data, fault) ==
    /\ BatchFault("planet_events", data, fault)
    /\ LET batch == Batch("planet_events", planet_events, data, fault, now) IN
       /\ planet_events' = batch.rows
       /\ Connection(fault)
       /\ ret' = Call("save_planet_events", <<data>>, fault, batch.return)
    /\ UNCHANGED <<schema, now, war_status, statistics, planet_status, campaigns,
                   assignments, dispatches, system_status, hist, cycle>>

(***************************************************************************)
(* The read accessors of the append-only tables and of system_status.      *)
(* A query's ORDER BY timestamp DESC leaves the order of rows with equal   *)
(* timestamps to the database: every such order is a possible result.      *)
(***************************************************************************)
\* The rows of an append-only table in every order ORDER BY timestamp DESC
\* allows (I: the indices of the rows not yet placed).
RECURSIVE OrderRowsByTimestampDesc(_, _)
OrderRowsByTimestampDesc(T, I) ==
    IF I = {} THEN {<<>>}
    ELSE UNION {{<<T[i]>> \o rest : rest \in OrderRowsByTimestampDesc(T, I \ {i})} :
                   i \in {j \in I : \A k \in I : T[k].timestamp <= T[j].timestamp}}

\* LIMIT %s, and the slice [:limit]
Limit(results, limit) ==
    SubSeq(results, 1, IF limit < Len(results) THEN limit ELSE Len(results))

\* fetchone() of SELECT data FROM <table> LIMIT 1, with no ORDER BY: None, or
\* any row.
SelectAnyRow(T) == IF T = <<>> THEN {PyNone} ELSE {T[i] : i \in DOMAIN T}

\* fetchone() of SELECT data FROM <table> ORDER BY timestamp DESC LIMIT 1:
\* None, or any row with the greatest timestamp.
SelectLatestRow(T) ==
    IF T = <<>> THEN {PyNone}
    ELSE {T[i] : i \in {j \in DOMAIN T : \A k \in DOMAIN T :
                                             T[k].timestamp <= T[j].timestamp}}

\* for row in results: data = row[0]; append data, json.loads'ed if a str
DataOf(results) == [i \in 1..Len(results) |-> RowData(results[i].data)]

\* for row in results: append {"data": ..., "timestamp": row[1]}
HistoryOf(results) ==
    [i \in 1..Len(results) |->
        [data |-> RowData(results[i].data), timestamp |-> results[i].timestamp]]

get_latest_war_status(fault) ==
    \E result \in SelectLatestRow(war_status) :
        LET txn == Txn(fault, Statement(fault, 1, schema))
            value == IF result = PyNone THEN PyNone ELSE RowData(result.data)
        IN  /\ Connection(fault)
            /\ ret' = Call("get_latest_war_status", <<>>, fault,
                           ReadReturn(txn, value, PyNone))
            /\ UNCHANGED <<schema, now, tables, hist, cycle>>

get_latest_statistics(fault) ==
    \E result \in SelectLatestRow(statistics) :
        LET txn == Txn(fault, Statement(fault, 1, schema))
            value == IF result = PyNone THEN PyNone ELSE RowData(result.data)
        IN  /\ Connection(fault)
            /\ ret' = Call("get_latest_statistics", <<>>, fault,
                           ReadReturn(txn, value, PyNone))
            /\ UNCHANGED <<schema, now, tables, hist, cycle>>

get_statistics_history(limit, fault) ==
    \E results \in OrderRowsByTimestampDesc(statistics, DOMAIN statistics) :
        LET txn == Txn(fault, Statement(fault, 1, schema))
            history == HistoryOf(Limit(results, limit))
        IN  /\ Connection(fault)
            /\ ret' = Call("get_statistics_history", <<limit>>, fault,
                           ReadReturn(txn, PyList(history), PyList(<<>>)))
            /\ UNCHANGED <<schema, now, tables, hist, cycle>>

\* SELECT data, timestamp FROM planet_status WHERE planet_index = %s
\* ORDER BY timestamp DESC LIMIT %s
get_planet_status_history(planet_index, limit, fault) ==
    \E results \in OrderByTimestampDesc({r \in planet_status :
                                            r.planet_index = planet_index}) :
        LET txn == Txn(fault, Statement(fault, 1, schema))
            history == HistoryOf(Limit(results, limit))
        IN  /\ Connection(fault)
            /\ ret' = Call("get_planet_status_history", <<planet_index, limit>>, fault,
                           ReadReturn(txn, PyList(history), PyList(<<>>)))
            /\ UNCHANGED <<schema, now, tables, hist, cycle>>

\* SELECT value FROM system_status with no WHERE clause, then fetchone()
SelectSystemStatusOfAnyKey(T, key) ==
    IF T # {}
        THEN PyStr((CHOOSE r \in T : \A q \in T : r.timestamp >= q.timestamp).value)
        ELSE PyNone

\* SELECT value FROM system_status WHERE key = %s, then fetchone()
SelectSystemStatus(T, key) ==
    IF \E r \in T : r.key = key
        THEN PyStr((CHOOSE r \in T : r.key = key).value)
        ELSE PyNone

\* An accessor that stores "false" for a key it does not find.
get_or_create_system_status(key, fault) ==
    LET txn == Txn(fault, Statement(fault, 1, schema))
    IN  /\ Connection(fault)
        /\ ret' = Call("get_system_status", <<key>>, fault,
                       ReadReturn(txn, SelectSystemStatus(system_status, key), PyNone))
        /\ system_status' =
               IF txn.committed /\ SelectSystemStatus(system_status, key) = PyNone
                   THEN UpsertSystemStatus(system_status, key, "false", now)
                   ELSE system_status
        /\ UNCHANGED <<schema, now, war_status, statistics, planet_status, campaigns,
                       assignments, dispatches, planet_events, hist, cycle>>

get_system_status(key, fault) ==
    LET txn == Txn(fault, Statement(fault, 1, schema))
    IN  /\ Connection(fault)
        /\ ret' = Call("get_system_status", <<key>>, fault,
                       ReadReturn(txn, SelectSystemStatus(system_status, key), PyNone))
        /\ UNCHANGED <<schema, now, tables, hist, cycle>>

\* return status == "true" if status else True: available unless the flag
\* says otherwise.
upstream_status_default_available(fault) ==
    LET txn == Txn(fault, Statement(fault, 1, schema))
        got == ReadReturn(txn, SelectSystemStatus(system_status,
                                                  "upstream_api_available"), PyNone)
        status == got.result
    IN  IF got.raised THEN got
        ELSE [raised |-> FALSE,
              result |-> IF Truthy(status) THEN PyBool(status = PyStr("true"))
                         ELSE PyTrue]

\* status = self.get_system_status(...); return status == "true" if status else False
upstream_status(fault) ==
    LET txn == Txn(fault, Statement(fault, 1, schema))
        got == ReadReturn(txn, SelectSystemStatus(system_status,
                                                  "upstream_api_available"), PyNone)
        status == got.result
    IN  IF got.raised THEN got
        ELSE [raised |-> FALSE,
              result |-> IF Truthy(status) THEN PyBool(status = PyStr("true"))
                         ELSE PyFalse]

get_upstream_status(fault) ==
    /\ Connection(fault)
    /\ ret' = Call("get_upstream_status", <<>>, fault, upstream_status(fault))
    /\ UNCHANGED <<schema, now, tables, hist, cycle>>

\* GET /api/health of the read API: the answer's status code and body, with
\* upstream_api taken from db.get_upstream_status().
health(fault) ==
    LET got == upstream_status(fault)
        body == [status_code |-> PyInt(200), status |-> PyStr("healthy"),
                 mode |-> PyStr("read-only"),
                 upstream_api |-> IF got.result = PyTrue THEN PyStr("online")
                                  ELSE PyStr("offline")]
    IN  /\ Connection(fault)
        /\ ret' = Call("health", <<>>, fault,
                       IF got.raised THEN got
                       ELSE [raised |-> FALSE, result |-> PyDict(body)])
        /\ UNCHANGED <<schema, now, tables, hist, cycle>>

\* A set_upstream_status that stores "true" whatever it is given.
set_upstream_status_true(available, fault) ==
    /\ update_system_status("upstream_api_available", "true", fault)

\* self.update_system_status("upstream_api_available",
\*                           "true" if available else "false")
set_upstream_status(available, fault) ==
    /\ update_system_status("upstream_api_available",
                            IF available THEN "true" ELSE "false", fault)

(***************************************************************************)
(* The read accessors of the keyed tables.                                 *)
(***************************************************************************)
\* An accessor's try body: the query, then what the accessor computes from
\* the rows (afterExc: the exception that computation raises, "NoExc" if none).
ReadBody(fault, afterExc) ==
    LET txn == Txn(fault, Statement(fault, 1, schema)) IN
    IF txn.exc = "NoExc" /\ afterExc # "NoExc"
        THEN [exc |-> afterExc, committed |-> FALSE]
        ELSE txn

\* SELECT data FROM assignments ORDER BY timestamp DESC LIMIT %s
get_assignment(limit, fault) ==
    \E results \in OrderByTimestampDesc(assignments) :
        /\ Connection(fault)
        /\ ret' = Call("get_assignment", <<limit>>, fault,
                       ReadReturn(ReadBody(fault, "NoExc"),
                                  PyList(DataOf(Limit(results, limit))), PyList(<<>>)))
        /\ UNCHANGED <<schema, now, tables, hist, cycle>>

\* The values of "published" in the order Python compares them.
PublishedOrder == <<"", "2025-01-01T00:00:00Z", "2025-01-02T00:00:00Z">>

\* key=lambda x: x.get("published", "")
PublishedKey(x) == PyGetDefault(x, "published", PyStr(""))

KeyLess(a, b) ==
    \E i, j \in DOMAIN PublishedOrder :
        /\ PublishedOrder[i] = a.v /\ PublishedOrder[j] = b.v /\ i < j

\* list.sort(key=..., reverse=True): descending and stable, so items with
\* equal keys keep the order they came in.
RECURSIVE SortByPublished(_)
SortByPublished(seq) ==
    IF seq = <<>> THEN <<>>
    ELSE LET sorted == SortByPublished(SubSeq(seq, 1, Len(seq) - 1))
             x == seq[Len(seq)]
             \* x goes after every item whose key is not less than its own
             n == Cardinality({i \in DOMAIN sorted :
                     ~KeyLess(PublishedKey(sorted[i]), PublishedKey(x))})
         IN  SubSeq(sorted, 1, n) \o <<x>> \o SubSeq(sorted, n + 1, Len(sorted))

\* Comparing two keys raises TypeError unless both are str.
SortRaises(seq) ==
    IF Len(seq) > 1 /\ \E i \in DOMAIN seq : PublishedKey(seq[i]).t # "str"
        THEN "TypeError" ELSE "NoExc"

\* SELECT data FROM dispatches ORDER BY timestamp DESC, sorted by published
get_dispatches(limit, fault) ==
    \E results \in OrderByTimestampDesc(dispatches) :
        LET found == DataOf(results)
            body == ReadBody(fault, SortRaises(found))
            value == IF body.exc = "NoExc"
                         THEN PyList(Limit(SortByPublished(found), limit))
                         ELSE PyNone
        IN  /\ Connection(fault)
            /\ ret' = Call("get_dispatches", <<limit>>, fault,
                           ReadReturn(body, value, PyList(<<>>)))
            /\ UNCHANGED <<schema, now, tables, hist, cycle>>

\* if planet_index: ... WHERE planet_index = %s ...  else: every event
SelectPlanetEvents(T, planet_index) ==
    IF Truthy(planet_index) THEN {r \in T : r.planet_index = planet_index.v} ELSE T

get_planet_events(planet_index, limit, fault) ==
    \E results \in OrderByTimestampDesc(SelectPlanetEvents(planet_events,
                                                           planet_index)) :
        /\ Connection(fault)
        /\ ret' = Call("get_planet_events", <<planet_index, limit>>, fault,
                       ReadReturn(ReadBody(fault, "NoExc"),
                                  PyList(DataOf(Limit(results, limit))), PyList(<<>>)))
        /\ UNCHANGED <<schema, now, tables, hist, cycle>>

\* The subquery without its GROUP BY: only the rows of the newest timestamp
\* of the whole table.
SelectNewestCampaigns(T) == Latest(T)

\* The snapshot with the status evaluated when it is read: campaigns whose
\* expiry has passed are left out.
SelectUnexpiredCampaigns(T) ==
    {r \in T : /\ \A q \in T : q.campaign_id = r.campaign_id => q.timestamp <= r.timestamp
               /\ CampaignStatus(RowData(r.data), now) = "active"}

\* SELECT data FROM campaigns WHERE (campaign_id, timestamp) IN
\*   (SELECT campaign_id, MAX(timestamp) FROM campaigns GROUP BY campaign_id)
SelectLatestCampaigns(T) ==
    {r \in T : \A q \in T : q.campaign_id = r.campaign_id => q.timestamp <= r.timestamp}

get_latest_campaigns_snapshot(fault) ==
    \E results \in OrderByTimestampDesc(SelectLatestCampaigns(campaigns)) :
        LET found == DataOf(results)
        IN  /\ Connection(fault)
            /\ ret' = Call("get_latest_campaigns_snapshot", <<>>, fault,
                           ReadReturn(ReadBody(fault, "NoExc"),
                                      IF found # <<>> THEN PyList(found) ELSE PyNone,
                                      PyNone))
            /\ UNCHANGED <<schema, now, tables, hist, cycle>>

\* The factions of the newest row that has any: an older row's factions when
\* the latest payload has none.
get_last_known_factions_snapshot(fault) ==
    LET having == SelectSeq(war_status,
                            LAMBDA r : PyGet(RowData(r.data), "factions") # PyNone)
    IN  \E result \in SelectLatestRow(having) :
            LET value == IF result = PyNone THEN PyNone
                         ELSE PyGet(RowData(result.data), "factions")
            IN  /\ Connection(fault)
                /\ ret' = Call("get_latest_factions_snapshot", <<>>, fault,
                               ReadReturn(ReadBody(fault, "NoExc"), value, PyNone))
                /\ UNCHANGED <<schema, now, tables, hist, cycle>>

\* war_data.get("factions", None) of the latest war_status row
get_latest_factions_snapshot(fault) ==
    \E result \in SelectLatestRow(war_status) :
        LET value == IF result = PyNone THEN PyNone
                     ELSE PyGet(RowData(result.data), "factions")
        IN  /\ Connection(fault)
            /\ ret' = Call("get_latest_factions_snapshot", <<>>, fault,
                           ReadReturn(ReadBody(fault, "NoExc"), value, PyNone))
            /\ UNCHANGED <<schema, now, tables, hist, cycle>>

\* A query without ORDER BY: the rows in any order.
RECURSIVE AnyOrder(_)
AnyOrder(S) ==
    IF S = {} THEN {<<>>}
    ELSE UNION {{<<r>> \o rest : rest \in AnyOrder(S \ {r})} : r \in S}

\* The biome of every planet that has a named one, repeated names included.
RECURSIVE EveryBiome(_, _)
EveryBiome(planets, names) ==
    IF planets = <<>> THEN <<>>
    ELSE LET planet_data == Head(planets)
             biome == PyGet(planet_data, "biome")
             biome_name == IF biome.t = "dict" THEN PyGet(biome.v, "name") ELSE PyNone
         IN  IF Truthy(biome_name)
                 THEN <<biome>> \o EveryBiome(Tail(planets), names)
                 ELSE EveryBiome(Tail(planets), names)

\* biomes[biome_name] = planet_data["biome"] for the first planet of each
\* biome name; list(biomes.values()) keeps the order of insertion.
RECURSIVE UniqueBiomes(_, _)
UniqueBiomes(planets, names) ==
    IF planets = <<>> THEN <<>>
    ELSE LET planet_data == Head(planets)
             biome == PyGet(planet_data, "biome")
             biome_name == IF biome.t = "dict" THEN PyGet(biome.v, "name") ELSE PyNone
         IN  IF Truthy(biome_name) /\ biome_name \notin names
                 THEN <<biome>> \o UniqueBiomes(Tail(planets), names \cup {biome_name})
                 ELSE UniqueBiomes(Tail(planets), names)

get_latest_biomes_snapshot(fault) ==
    LET result == SelectLatestTimestamp(planet_status) IN
    \E results \in AnyOrder(IF result = PyNone THEN {}
                            ELSE {r \in planet_status : r.timestamp = result.v}) :
        LET biomes == UniqueBiomes(DataOf(results), {})
        IN  /\ Connection(fault)
            /\ ret' = Call("get_latest_biomes_snapshot", <<>>, fault,
                           ReadReturn(ReadBody(fault, "NoExc"),
                                      IF biomes # <<>> THEN PyList(biomes) ELSE PyNone,
                                      PyNone))
            /\ UNCHANGED <<schema, now, tables, hist, cycle>>

(***************************************************************************)
(* The clock.                                                              *)
(***************************************************************************)
Tick ==
    /\ now < MaxTime
    /\ now' = now + 1
    /\ UNCHANGED <<schema, tables, ret, hist, cycle, pool, calls>>

(***************************************************************************)
(* The state after Database(database_url): nothing has been called; the    *)
(* database is either fresh (no tables) or already holds the schema.       *)
(***************************************************************************)
\* The threads that call save_campaign at the same time, and a thread that
\* has not called yet.
Threads == {1, 2, 3}

NotCalled ==
    [pc |-> "idle", campaign_id |-> 0, planet_index |-> 0, data |-> PyNone,
     status |-> "", timestamp |-> 0, result |-> PyNone]

NoCall ==
    [op |-> "none", args |-> <<>>, fault |-> NoFault, raised |-> FALSE,
     result |-> PyNone]

\* Config.CLAUDE_API_KEY as read from the environment, and no request handled.
ProxyState(api_key) == [CLAUDE_API_KEY |-> api_key, log |-> {}]

\* Database(database_url): self._pool = None (0); no pool created; no thread
\* inside _get_pool or holding the pool it returned.
DatabaseInit ==
    [_pool |-> 0, pools |-> <<>>, pc |-> [t \in Threads |-> "idle"],
     got |-> [t \in Threads |-> 0]]

CycleInit == [phase |-> "idle", todo |-> {}, ok |-> TRUE]

\* DataCollector(db, interval=interval): constructed, not started.
CollectorInit ==
    [state |-> "Idle", is_running |-> FALSE, in_cycle |-> FALSE, done |-> <<>>,
     fetched |-> FALSE, failed |-> FALSE, cycles |-> 0]

Init ==
    /\ schema \in BOOLEAN
    /\ now = 0
    /\ war_status = <<>>
    /\ statistics = <<>>
    /\ planet_status = {}
    /\ campaigns = {}
    /\ assignments = {}
    /\ dispatches = {}
    /\ planet_events = {}
    /\ system_status = {}
    /\ ret = NoCall
    /\ hist = HistInit
    /\ cycle = CycleInit
    /\ pool = 0
    /\ calls = [t \in Threads |-> NotCalled]
    /\ collector = CollectorInit
    /\ proxy = ProxyState("")
    /\ db = DatabaseInit
    /\ main = "init"
    /\ nops = 0

(***************************************************************************)
(* The specifications.  Each calls a group of operations in any order,     *)
(* with any inputs of its sets and with faults of every outcome.           *)
(***************************************************************************)
\* One fault of each outcome: nothing committed, and committed but not released.
SomeFaults == {NoFault, Fault("execute", 1), Fault("putconn", 0)}

SomeReadFaults == {NoFault, Fault("getconn", 0)}

\* An operation of a specification that does not count its operations, and
\* one of a specification that performs at most MaxOps of them.  Both are
\* called outside of the collector and of the entry point.
Free(A) == A /\ UNCHANGED <<nops, collector, main, proxy, db>>

Counted(A) ==
    nops < MaxOps /\ A /\ nops' = nops + 1 /\ UNCHANGED <<collector, main, proxy, db>>

\* SpecPlanets: the planet operations.
NextPlanets ==
    \/ \E k \in Keys, d \in PlanetPayloads, f \in SomeFaults :
           Free(save_planet_status(k, d, f))
    \/ \E k \in Keys, f \in SomeReadFaults : Free(get_planet_status(k, f))
    \/ \E f \in SomeReadFaults : Free(get_latest_planets_snapshot(f))
    \/ Free(Tick)

SpecPlanets == Init /\ [][NextPlanets]_vars

\* SpecCycle: the collector, the sole writer, saves the planets cycle after
\* cycle while a client reads the snapshot.
NextCycle ==
    \/ Free(cycle_start)
    \/ \E d \in PlanetPayloads, f \in SomeFaults : Free(cycle_save_planet(d, f))
    \/ \E f \in SomeReadFaults : Free(get_latest_planets_snapshot(f))
    \/ Free(Tick)

SpecCycle == Init /\ [][NextCycle]_vars

\* SpecCampaigns: the campaign operations.
CampaignPlanets == {1}

NextCampaigns ==
    \/ \E c \in Keys, p \in CampaignPlanets, d \in CampaignPayloads,
          f \in {NoFault, Fault("execute", 1)} :
           Free(save_campaign(c, p, d, f))
    \/ \E f \in SomeReadFaults : Free(get_active_campaigns(f))
    \/ Free(Tick)

SpecCampaigns == Init /\ [][NextCampaigns]_vars

\* The items of a batch: one without the id field, one whose id is 0, one
\* whose id is 1.
AssignmentItems ==
    {[title |-> PyStr("A")],
     [id |-> PyInt(0), title |-> PyStr("A")],
     [id |-> PyInt(1), title |-> PyStr("A")]}

DispatchItems ==
    {[message |-> PyStr("M")],
     [id |-> PyInt(0), message |-> PyStr("M")],
     [id |-> PyInt(1), message |-> PyStr("M")]}

EventItems ==
    {[planet_index |-> PyInt(1), event_type |-> PyStr("storm")],
     [id |-> PyInt(0), planet_index |-> PyInt(1), event_type |-> PyStr("storm")],
     [id |-> PyInt(1), planet_index |-> PyInt(1), event_type |-> PyStr("storm")]}

Batches(items) == UNION {[1..n -> items] : n \in 0..MaxBatch}

\* A failing statement at any item, and a failing commit.
ItemFaults ==
    {NoFault, Fault("commit", 0)} \cup {Fault("execute", i) : i \in 1..MaxBatch}

\* SpecBatch: the batch saves, with a fault at every item.
NextBatch ==
    \/ \E d \in Batches(AssignmentItems), f \in ItemFaults :
           Free(save_assignments(d, f))
    \/ \E d \in Batches(DispatchItems), f \in ItemFaults :
           Free(save_dispatches(d, f))
    \/ \E d \in Batches(EventItems), f \in ItemFaults :
           Free(save_planet_events(d, f))

SpecBatch == Init /\ [][NextBatch]_vars

\* The batches whose items all carry an id the loop accepts.
KeyedBatches(items) == {d \in Batches(items) : \A j \in DOMAIN d : Truthy(PyGet(d[j], "id"))}

WarPayload == [warId |-> PyInt(1)]

StatisticsPayload == [missionsWon |-> PyInt(1)]

CampaignPayload == [name |-> PyStr("C")]

EventPayload == [name |-> PyStr("E")]

SystemKeys == {"upstream_api_available"}

SystemValues == {"true", "false"}

\* Spec: every save operation, single and batch, succeeding and failing, in
\* any order, at most MaxOps steps.
Next ==
    \/ \E k \in Keys, d \in PlanetPayloads, f \in SomeFaults :
           Counted(save_planet_status(k, d, f))
    \/ \E k \in Keys, p \in CampaignPlanets, f \in SomeFaults :
           Counted(save_campaign(k, p, CampaignPayload, f))
    \/ \E k \in Keys, d \in AssignmentItems, f \in SomeFaults :
           Counted(save_assignment(k, d, f))
    \/ \E k \in Keys, d \in DispatchItems, f \in SomeFaults :
           Counted(save_dispatch(k, d, f))
    \/ \E k \in Keys, p \in CampaignPlanets, f \in SomeFaults :
           Counted(save_planet_event(k, p, PyStr("storm"), EventPayload, f))
    \/ \E k \in SystemKeys, v \in SystemValues, f \in SomeFaults :
           Counted(update_system_status(k, v, f))
    \/ \E d \in KeyedBatches(AssignmentItems), f \in SomeFaults :
           Counted(save_assignments(d, f))
    \/ \E d \in KeyedBatches(DispatchItems), f \in SomeFaults :
           Counted(save_dispatches(d, f))
    \/ \E d \in KeyedBatches(EventItems), f \in SomeFaults :
           Counted(save_planet_events(d, f))
    \/ \E f \in SomeFaults : Counted(save_war_status(WarPayload, f))
    \/ \E f \in SomeFaults : Counted(save_statistics(StatisticsPayload, f))
    \/ Counted(Tick)

Spec == Init /\ [][Next]_vars

\* SpecFaults: every save operation with every fault, at most MaxOps calls.
NextFaults ==
    \/ \E d \in PlanetPayloads, f \in SingleFaults :
           Counted(save_planet_status(1, d, f))
    \/ \E f \in SingleFaults : Counted(save_campaign(1, 1, CampaignPayload, f))
    \/ \E f \in SingleFaults :
           Counted(save_assignment(1, [title |-> PyStr("A")], f))
    \/ \E f \in SingleFaults :
           Counted(save_dispatch(1, [message |-> PyStr("M")], f))
    \/ \E f \in SingleFaults :
           Counted(save_planet_event(1, 1, PyStr("storm"), EventPayload, f))
    \/ \E k \in SystemKeys, f \in SingleFaults \ {Fault("dumps", 1)} :
           Counted(update_system_status(k, "true", f))
    \/ \E d \in KeyedBatches(AssignmentItems), f \in BatchFaults :
           Counted(save_assignments(d, f))
    \/ \E d \in KeyedBatches(DispatchItems), f \in BatchFaults :
           Counted(save_dispatches(d, f))
    \/ \E d \in KeyedBatches(EventItems), f \in BatchFaults :
           Counted(save_planet_events(d, f))
    \/ \E f \in SingleFaults \cup InitDbFaults :
           Counted(save_war_status(WarPayload, f))
    \/ \E f \in SingleFaults : Counted(save_statistics(StatisticsPayload, f))

SpecFaults == Init /\ [][NextFaults]_vars

\* The faults of an accessor: no connection, a failing query, and a
\* connection that cannot be returned to the pool.
ReadFaults ==
    {NoFault, Fault("getconn", 0), Fault("execute", 1), Fault("putconn", 0)}

Limits == {1, 10}

FactionsPayload ==
    [warId |-> PyInt(2), factions |-> PyList(<<PyStr("Humans"), PyStr("Terminids")>>)]

RepeatedFactionsPayload ==
    [warId |-> PyInt(3),
     factions |-> PyList(<<PyDict([id |-> PyInt(1), name |-> PyStr("Terminids")]),
                           PyDict([id |-> PyInt(2), name |-> PyStr("Terminids")])>>)]

BiomePayloads ==
    {[name |-> PyStr("X"), biome |-> PyDict([name |-> PyStr("Desert")])],
     [name |-> PyStr("Y"), biome |-> PyDict([name |-> PyStr("Ice")])]}

UnpublishedDispatches == {[message |-> PyStr("M")], [published |-> PyNone]}

\* SpecReads: every accessor with every fault, on a store that a few saves
\* have filled; at most MaxOps calls.
NextReads ==
    \/ \E d \in {WarPayload, FactionsPayload, RepeatedFactionsPayload} :
           Counted(save_war_status(d, NoFault))
    \/ Counted(save_statistics(StatisticsPayload, NoFault))
    \/ \E k \in Keys, d \in BiomePayloads : Counted(save_planet_status(k, d, NoFault))
    \/ \E k \in Keys : Counted(save_campaign(k, 1, CampaignPayload, NoFault))
    \/ Counted(save_assignment(1, [title |-> PyStr("A")], NoFault))
    \/ \E k \in Keys, d \in UnpublishedDispatches : Counted(save_dispatch(k, d, NoFault))
    \/ Counted(save_planet_event(1, 1, PyStr("storm"), EventPayload, NoFault))
    \/ \E a \in BOOLEAN : Counted(set_upstream_status(a, NoFault))
    \/ Counted(Tick)
    \/ \E f \in ReadFaults : Counted(get_latest_war_status(f))
    \/ \E f \in ReadFaults : Counted(get_latest_statistics(f))
    \/ \E k \in Keys, f \in ReadFaults : Counted(get_planet_status(k, f))
    \/ \E f \in ReadFaults : Counted(get_latest_planets_snapshot(f))
    \/ \E f \in ReadFaults : Counted(get_latest_campaigns_snapshot(f))
    \/ \E f \in ReadFaults : Counted(get_latest_factions_snapshot(f))
    \/ \E f \in ReadFaults : Counted(get_latest_biomes_snapshot(f))
    \/ \E k \in SystemKeys, f \in ReadFaults : Counted(get_system_status(k, f))
    \/ \E f \in ReadFaults : Counted(get_upstream_status(f))
    \/ \E f \in ReadFaults : Counted(get_active_campaigns(f))
    \/ \E l \in Limits, f \in ReadFaults : Counted(get_assignment(l, f))
    \/ \E l \in Limits, f \in ReadFaults : Counted(get_dispatches(l, f))
    \/ \E p \in {PyNone, PyInt(0), PyInt(1)}, l \in Limits, f \in ReadFaults :
           Counted(get_planet_events(p, l, f))
    \/ \E k \in Keys, l \in Limits, f \in ReadFaults :
           Counted(get_planet_status_history(k, l, f))
    \/ \E l \in Limits, f \in ReadFaults : Counted(get_statistics_history(l, f))

SpecReads == Init /\ [][NextReads]_vars

\* SpecSnapshot: campaigns of every status and the campaigns snapshot.
NextSnapshot ==
    \/ \E c \in Keys, p \in CampaignPlanets, d \in CampaignPayloads :
           Free(save_campaign(c, p, d, NoFault))
    \/ \E f \in SomeReadFaults : Free(get_latest_campaigns_snapshot(f))
    \/ Free(Tick)

SpecSnapshot == Init /\ [][NextSnapshot]_vars

\* SpecPool: calls that use the pool, some of them leaving a connection
\* checked out; the calls that append a row to war_status and keep no
\* connection are at most MaxOps.
PoolFaults == {NoFault, Fault("getconn", 0), Fault("execute", 1)}

NextPool ==
    \/ \E f \in {NoFault, Fault("init_getconn", 0)} :
           Counted(save_war_status(WarPayload, f))
    \/ \E f \in (InitDbFaults \ {Fault("init_getconn", 0)}) \cup {Fault("getconn", 0)} :
           Free(save_war_status(WarPayload, f))
    \/ \E d \in PlanetPayloads, f \in PoolFaults : Free(save_planet_status(1, d, f))
    \/ \E f \in PoolFaults : Free(get_latest_war_status(f))
    \/ \E f \in PoolFaults : Free(get_planet_status_history(1, 10, f))

SpecPool == Init /\ [][NextPool]_vars

(***************************************************************************)
(* save_campaign called by several threads at once.  A call is the steps   *)
(* of its body; calls[t] holds what thread t's call has computed so far.   *)
(* The statement is INSERT ... ON CONFLICT (campaign_id) DO UPDATE: it     *)
(* locks the row of its campaign_id until its transaction ends, and a      *)
(* statement on a locked row waits.  CURRENT_TIMESTAMP is the time the     *)
(* transaction began, which is the time its statement was sent.            *)
(***************************************************************************)
RowLocked(t, campaign_id) ==
    \E u \in Threads \ {t} :
        calls[u].pc = "executed" /\ calls[u].campaign_id = campaign_id

\* conn = self._get_connection()
call_get_connection(t, campaign_id, planet_index, data) ==
    /\ calls[t].pc = "idle"
    /\ IF pool >= MaxConn
           THEN /\ calls' = [calls EXCEPT ![t] =
                                 [@ EXCEPT !.pc = "done", !.campaign_id = campaign_id,
                                           !.planet_index = planet_index,
                                           !.data = PyDict(data), !.result = PyFalse]]
                /\ pool' = pool
           ELSE /\ calls' = [calls EXCEPT ![t] =
                                 [@ EXCEPT !.pc = "connected", !.campaign_id = campaign_id,
                                           !.planet_index = planet_index,
                                           !.data = PyDict(data)]]
                /\ pool' = pool + 1
    /\ UNCHANGED <<schema, now, tables, ret, hist, cycle>>

\* status = "active" if now < exp_dt else "expired" (and the other branches)
call_status(t) ==
    /\ calls[t].pc = "connected"
    /\ calls' = [calls EXCEPT ![t] =
                     [@ EXCEPT !.pc = "status",
                               !.status = CampaignStatus(calls[t].data.v, now)]]
    /\ UNCHANGED <<schema, now, tables, ret, hist, cycle, pool>>

\* cursor.execute(...) is sent: it raises without the table, waits on a
\* locked row, and otherwise holds its row's lock.
call_execute(t) ==
    /\ calls[t].pc = "status"
    /\ calls' = [calls EXCEPT ![t] =
                     [@ EXCEPT !.pc = IF ~schema THEN "closing"
                                      ELSE IF RowLocked(t, calls[t].campaign_id)
                                               THEN "waiting"
                                      ELSE "executed",
                               !.timestamp = now,
                               !.result = IF ~schema THEN PyFalse ELSE PyNone]]
    /\ UNCHANGED <<schema, now, tables, ret, hist, cycle, pool>>

\* the row's lock is free: the waiting statement goes on
call_execute_locked(t) ==
    /\ calls[t].pc = "waiting"
    /\ ~RowLocked(t, calls[t].campaign_id)
    /\ calls' = [calls EXCEPT ![t] = [@ EXCEPT !.pc = "executed"]]
    /\ UNCHANGED <<schema, now, tables, ret, hist, cycle, pool>>

\* conn.commit(); return True
call_commit(t) ==
    /\ calls[t].pc = "executed"
    /\ campaigns' = UpsertCampaign(campaigns, calls[t].campaign_id,
                                   calls[t].planet_index, calls[t].status,
                                   json_dumps(calls[t].data.v), calls[t].timestamp)
    /\ calls' = [calls EXCEPT ![t] = [@ EXCEPT !.pc = "closing", !.result = PyTrue]]
    /\ UNCHANGED <<schema, now, war_status, statistics, planet_status, assignments,
                   dispatches, planet_events, system_status, ret, hist, cycle, pool>>

\* finally: conn.close()
call_close(t) ==
    /\ calls[t].pc = "closing"
    /\ pool' = pool - 1
    /\ calls' = [calls EXCEPT ![t] = [@ EXCEPT !.pc = "done"]]
    /\ UNCHANGED <<schema, now, tables, ret, hist, cycle>>

\* SpecConc: every thread calls save_campaign once, its planet index being
\* the thread's number; the steps of the calls interleave.
ConcPayloads ==
    {[name |-> PyStr("C")],
     [name |-> PyStr("C"), expiresAt |-> PyStr("2025-01-01T01:00:00Z")]}

NextConc ==
    \/ \E t \in Threads, c \in Keys, d \in ConcPayloads :
           Free(call_get_connection(t, c, t, d))
    \/ \E t \in Threads : Free(call_status(t))
    \/ \E t \in Threads : Free(call_execute(t))
    \/ \E t \in Threads : Free(call_execute_locked(t))
    \/ \E t \in Threads : Free(call_commit(t))
    \/ \E t \in Threads : Free(call_close(t))
    \/ Free(Tick)

SpecConc == Init /\ [][NextConc]_vars

\* SpecWar: the append-only tables and their latest rows.
StatisticsPayloads == {StatisticsPayload, [missionsWon |-> PyInt(2)]}

NextWar ==
    \/ \E d \in {WarPayload, FactionsPayload}, f \in {NoFault, Fault("execute", 1)} :
           Counted(save_war_status(d, f))
    \/ \E d \in StatisticsPayloads, f \in {NoFault, Fault("execute", 1)} :
           Counted(save_statistics(d, f))
    \/ \E f \in SomeReadFaults : Free(get_latest_war_status(f))
    \/ \E f \in SomeReadFaults : Free(get_latest_statistics(f))
    \/ \E f \in SomeReadFaults : Free(get_latest_factions_snapshot(f))
    \/ Free(Tick)

SpecWar == Init /\ [][NextWar]_vars

\* SpecFlag: the upstream-availability flag, set and read with faults, next
\* to another key of system_status, and the health endpoint.
NextFlag ==
    \/ \E b \in BOOLEAN, f \in SingleFaults \ {Fault("dumps", 1)} :
           Free(set_upstream_status(b, f))
    \/ \E v \in SystemValues : Free(update_system_status("last_cycle", v, NoFault))
    \/ \E f \in ReadFaults : Free(get_upstream_status(f))
    \/ \E f \in ReadFaults : Free(health(f))
    \/ Free(Tick)

SpecFlag == Init /\ [][NextFlag]_vars

(***************************************************************************)
(* The collector and its entry point.  src/collector.py is not part of the *)
(* sources: the DataCollector is the Collector Loop of the specification   *)
(* (section 4.2), and the entry point is main() of src/src/poller.py,      *)
(* which run_collector() of src/src/main.py repeats.                       *)
(*                                                                         *)
(* collector.state is Idle, Running or Stopping; a cycle in flight         *)
(* (in_cycle) has handled the classes of collector.done; fetched tells     *)
(* whether some class of the cycle was fetched, failed whether the fetch   *)
(* or the reconcile of some class failed; both keep the values of the last *)
(* cycle until the next one begins.  The upstream answers every fetch with *)
(* one record of the class, or fails; in one cycle either the upstream is  *)
(* down for the first classes, or one class fails to fetch or to save.     *)
(* The cycle runs on the collector's                                       *)
(* own thread (thread 1 of calls), the entry point and the signal handler  *)
(* on the main thread; the save of the campaign is the steps of its body,  *)
(* so that a stop can arrive in the middle of it.                          *)
(***************************************************************************)
\* A cycle that handles the planet events first.
EventsFirst ==
    <<"planet_events", "war_status", "statistics", "planets", "campaigns",
      "assignments", "dispatches">>

EntityClasses ==
    <<"war_status", "statistics", "planets", "campaigns", "assignments",
      "dispatches", "planet_events">>

\* A stop() that stops whatever the state.
stop_any_state(c) == [c EXCEPT !.state = "Stopping"]

\* start(): Idle -> Running
start(c) ==
    IF c.state = "Idle" THEN [c EXCEPT !.state = "Running", !.is_running = TRUE] ELSE c

\* stop(): Running -> Stopping
stop(c) ==
    IF c.state = "Running" THEN [c EXCEPT !.state = "Stopping"] ELSE c

\* the class the cycle in flight handles next
NextClass ==
    IF collector.in_cycle /\ Len(collector.done) < Len(EntityClasses)
        THEN EntityClasses[Len(collector.done) + 1]
        ELSE "none"

Handled(class, fetched, failed) ==
    [collector EXCEPT !.done = Append(@, class),
                      !.fetched = @ \/ fetched,
                      !.failed = @ \/ failed]

\* the interval has passed: a cycle begins
collector_cycle ==
    /\ collector.state = "Running"
    /\ ~collector.in_cycle
    /\ collector.cycles < MaxCycles
    /\ collector' = [collector EXCEPT !.in_cycle = TRUE, !.done = <<>>,
                                      !.fetched = FALSE, !.failed = FALSE]
    /\ UNCHANGED <<schema, now, tables, ret, hist, cycle, pool, calls, main, nops, proxy, db>>

\* A cycle that a failed fetch ends.
collector_fetch_failed_ends_cycle ==
    /\ NextClass # "none"
    /\ ~collector.failed \/ ~collector.fetched
    /\ collector' = [collector EXCEPT !.failed = TRUE, !.in_cycle = FALSE,
                                      !.cycles = @ + 1]
    /\ UNCHANGED <<schema, now, tables, ret, hist, cycle, pool, calls, main, nops, proxy, db>>

\* the fetch of the next class fails: there is nothing to reconcile
collector_fetch_failed ==
    /\ NextClass # "none"
    /\ ~collector.failed \/ ~collector.fetched
    /\ collector' = Handled(NextClass, FALSE, TRUE)
    /\ UNCHANGED <<schema, now, tables, ret, hist, cycle, pool, calls, main, nops, proxy, db>>

\* the Reconciler's call for a fetched class
Reconcile(class, fault) ==
    \/ class = "war_status" /\ save_war_status(WarPayload, fault)
    \/ class = "statistics" /\ save_statistics(StatisticsPayload, fault)
    \/ class = "planets" /\ save_planet_status(1, [name |-> PyStr("X")], fault)
    \/ class = "assignments"
           /\ save_assignments(<<[id |-> PyInt(1), title |-> PyStr("A")]>>, fault)
    \/ class = "dispatches"
           /\ save_dispatches(<<[id |-> PyInt(1), message |-> PyStr("M")]>>, fault)
    \/ class = "planet_events"
           /\ save_planet_events(<<[id |-> PyInt(1), planet_index |-> PyInt(1),
                                    event_type |-> PyStr("storm")]>>, fault)

\* the next class is fetched and reconciled in one call
collector_reconcile(fault) ==
    /\ NextClass \notin {"none", "campaigns"}
    /\ fault # NoFault => ~collector.failed
    /\ Reconcile(NextClass, fault)
    /\ collector' = Handled(NextClass, TRUE, ret'.raised \/ ret'.result # PyTrue)
    /\ UNCHANGED <<main, nops, proxy, db>>

\* the campaign is fetched and save_campaign is called; its body runs step
\* by step
collector_save_campaign ==
    /\ NextClass = "campaigns"
    /\ call_get_connection(1, 1, 1, CampaignPayload)
    /\ UNCHANGED <<collector, main, nops, proxy, db>>

collector_save_campaign_step ==
    /\ NextClass = "campaigns"
    /\ \/ call_status(1)
       \/ call_execute(1)
       \/ call_commit(1)
       \/ call_close(1)
    /\ UNCHANGED <<collector, main, nops, proxy, db>>

\* save_campaign has returned
collector_save_campaign_return ==
    /\ NextClass = "campaigns"
    /\ calls[1].pc = "done"
    /\ calls' = [calls EXCEPT ![1] = NotCalled]
    /\ collector' = Handled("campaigns", TRUE, calls[1].result # PyTrue)
    /\ UNCHANGED <<schema, now, tables, ret, hist, cycle, pool, main, nops, proxy, db>>

\* A collector that a cycle with a failure stops.
collector_mark_stops_on_failure(fault) ==
    /\ collector.in_cycle
    /\ Len(collector.done) = Len(EntityClasses)
    /\ set_upstream_status(collector.fetched, fault)
    /\ collector' = [collector EXCEPT !.in_cycle = FALSE, !.cycles = @ + 1,
                                      !.state = IF collector.failed THEN "Stopping" ELSE @]
    /\ UNCHANGED <<main, nops, proxy, db>>

\* every class is handled: the cycle marks the upstream and ends
collector_mark(fault) ==
    /\ collector.in_cycle
    /\ Len(collector.done) = Len(EntityClasses)
    /\ set_upstream_status(collector.fetched, fault)
    /\ collector' = [collector EXCEPT !.in_cycle = FALSE, !.cycles = @ + 1]
    /\ UNCHANGED <<main, nops, proxy, db>>

\* no cycle is in flight any more: the stopped collector is idle
collector_settle ==
    /\ collector.state = "Stopping"
    /\ ~collector.in_cycle
    /\ collector' = [collector EXCEPT !.state = "Idle", !.is_running = FALSE]
    /\ UNCHANGED <<schema, now, tables, ret, hist, cycle, pool, calls, main, nops, proxy, db>>

\* try: collector.start(); while collector.is_running: signal.pause()
main_try ==
    /\ main = "init"
    /\ collector' = start(collector)
    /\ main' = IF collector'.is_running THEN "waiting" ELSE "finally"
    /\ UNCHANGED <<schema, now, tables, ret, hist, cycle, pool, calls, nops, proxy, db>>

\* A handler that exits without stopping the collector.
signal_handler_exit_only ==
    /\ main \in {"init", "waiting"}
    /\ main' = "finally"
    /\ UNCHANGED <<schema, now, tables, ret, hist, cycle, pool, calls, collector, nops, proxy, db>>

\* SIGINT or SIGTERM: if collector: collector.stop(); sys.exit(0).
\* SystemExit is no Exception: no except clause of main catches it, and the
\* finally clause runs.
signal_handler ==
    /\ main \in {"init", "waiting"}
    /\ collector' = stop(collector)
    /\ main' = "finally"
    /\ UNCHANGED <<schema, now, tables, ret, hist, cycle, pool, calls, nops, proxy, db>>

\* finally: if collector: collector.stop()
main_finally ==
    /\ main = "finally"
    /\ collector' = stop(collector)
    /\ main' = "exited"
    /\ UNCHANGED <<schema, now, tables, ret, hist, cycle, pool, calls, nops, proxy, db>>

\* SpecCollector: the entry point starts the collector, cycles run with
\* fetches and saves that succeed or fail, and a signal stops it at any
\* moment.
CycleFaults == {NoFault, Fault("execute", 1)}

CollectorStep ==
    \/ collector_cycle
    \/ collector_fetch_failed
    \/ \E f \in CycleFaults : collector_reconcile(f)
    \/ collector_save_campaign
    \/ collector_save_campaign_step
    \/ collector_save_campaign_return
    \/ \E f \in CycleFaults : collector_mark(f)
    \/ collector_settle

MainStep ==
    \/ main_try
    \/ main_finally

NextCollector ==
    \/ CollectorStep
    \/ MainStep
    \/ signal_handler

SpecCollector == Init /\ [][NextCollector]_vars

\* SpecCollectorFair: the collector's thread and the main thread keep
\* running; a signal may never arrive.
SpecCollectorFair ==
    SpecCollector /\ WF_vars(CollectorStep) /\ WF_vars(MainStep)

\* SpecLists: the list accessors with limits 0, 1 and 10 on keyed tables
\* that saves fill: dispatches published on two days, without a published
\* date and with a null one; event k on planet k.
ListLimits == {0, 1, 10}

PublishedDispatches ==
    {[published |-> PyStr("2025-01-01T00:00:00Z")],
     [published |-> PyStr("2025-01-02T00:00:00Z")],
     [message |-> PyStr("M")],
     [published |-> PyNone]}

NextLists ==
    \/ \E k \in Keys : Free(save_assignment(k, [title |-> PyStr("A")], NoFault))
    \/ \E k \in Keys, d \in PublishedDispatches : Free(save_dispatch(k, d, NoFault))
    \/ \E k \in Keys :
           Free(save_planet_event(k, k, PyStr("storm"),
                                  [name |-> PyStr("E"), index |-> PyInt(k)], NoFault))
    \/ \E l \in ListLimits : Free(get_assignment(l, NoFault))
    \/ \E l \in ListLimits : Free(get_dispatches(l, NoFault))
    \/ \E p \in {PyNone, PyInt(0), PyInt(1)}, l \in ListLimits :
           Free(get_planet_events(p, l, NoFault))

SpecLists == Init /\ [][NextLists]_vars

\* SpecBiomes: planets saved at several times with biomes of every shape
\* (two biomes of one name, another name, an empty name, a biome without a
\* name, a biome that is a text, no biome), and the two snapshots read.
BiomeCases ==
    {[biome |-> PyDict([name |-> PyStr("Desert"), id |-> PyInt(1)])],
     [biome |-> PyDict([name |-> PyStr("Desert"), id |-> PyInt(2)])],
     [biome |-> PyDict([name |-> PyStr("Ice")])],
     [biome |-> PyDict([name |-> PyStr("")])],
     [biome |-> PyDict([id |-> PyInt(3)])],
     [biome |-> PyStr("Desert")],
     [name |-> PyStr("X")]}

NextBiomes ==
    \/ \E k \in Keys, d \in BiomeCases : Free(save_planet_status(k, d, NoFault))
    \/ \E f \in SomeReadFaults : Free(get_latest_biomes_snapshot(f))
    \/ \E f \in SomeReadFaults : Free(get_latest_planets_snapshot(f))
    \/ Free(Tick)

SpecBiomes == Init /\ [][NextBiomes]_vars

(***************************************************************************)
(* get_latest_planets_snapshot statement by statement.  Its two SELECTs    *)
(* run in one transaction of the reader's connection; the code sets no     *)
(* isolation level, so the transaction is READ COMMITTED, PostgreSQL's     *)
(* default, and each statement sees the rows committed before it starts:   *)
(* a save_planet_status of another thread that commits between the two is  *)
(* seen by the second and not by the first.                                *)
(***************************************************************************)
\* conn = self._get_connection() and the first query: the most recent
\* timestamp of planet_status; `if not result: return None'.
snapshot_fetchone(t) ==
    LET result == SelectLatestTimestamp(planet_status) IN
    /\ calls[t].pc \in {"idle", "done"}
    /\ schema
    /\ pool < MaxConn
    /\ IF result = PyNone
           THEN /\ calls' = [calls EXCEPT ![t] = [@ EXCEPT !.pc = "done",
                                                            !.result = PyNone]]
                /\ ret' = Call("get_latest_planets_snapshot", <<>>, NoFault,
                               [raised |-> FALSE, result |-> PyNone])
                /\ pool' = pool
           ELSE /\ calls' = [calls EXCEPT ![t] = [@ EXCEPT !.pc = "fetched",
                                                            !.timestamp = result.v]]
                /\ ret' = ret
                /\ pool' = pool + 1
    /\ UNCHANGED <<schema, now, tables, hist, cycle>>

\* The second query, the planets of that timestamp, `return planets if planets
\* else None', and conn.close().
snapshot_fetchall(t) ==
    LET results == SelectPlanetsAt(planet_status, calls[t].timestamp)
        planets == [i \in 1..Len(results) |-> RowData(results[i].data)]
        value == IF planets # <<>> THEN PyList(planets) ELSE PyNone
    IN  /\ calls[t].pc = "fetched"
        /\ calls' = [calls EXCEPT ![t] = [@ EXCEPT !.pc = "done", !.result = value]]
        /\ ret' = Call("get_latest_planets_snapshot", <<>>, NoFault,
                       [raised |-> FALSE, result |-> value])
        /\ pool' = pool - 1
        /\ UNCHANGED <<schema, now, tables, hist, cycle>>

\* SpecRace: the collector saves planets while two clients read the snapshot.
Readers == {1, 2}

NextRace ==
    \/ \E k \in Keys : Free(save_planet_status(k, [name |-> PyStr("X")], NoFault))
    \/ \E t \in Readers : Free(snapshot_fetchone(t))
    \/ \E t \in Readers : Free(snapshot_fetchall(t))
    \/ Free(Tick)

SpecRace == Init /\ [][NextRace]_vars

(***************************************************************************)
(* The Claude reverse proxy (claude_proxy.py).  A request is [method, path, *)
(* headers, body], its headers the list of (name, value) pairs the client  *)
(* sent; the ASGI server hands the names over in lower case, and           *)
(* dict(request.headers) keeps, for each name, the first value.            *)
(***************************************************************************)
ANTHROPIC_BASE == "https://api.anthropic.com"

Lower(name) ==
    CASE name = "Host" -> "host"
      [] name = "X-Api-Key" -> "x-api-key"
      [] OTHER -> name

\* request.headers
RequestHeaders(raw) == [i \in DOMAIN raw |-> <<Lower(raw[i][1]), raw[i][2]>>]

\* dict(request.headers)
DictOfHeaders(list) ==
    [n \in {list[i][1] : i \in DOMAIN list} |->
        LET first == CHOOSE i \in DOMAIN list :
                         list[i][1] = n /\ \A j \in 1..(i - 1) : list[j][1] # n
        IN  list[first][2]]

\* headers.pop(k, None)
DictPop(d, k) == [n \in DOMAIN d \ {k} |-> d[n]]

\* headers[k] = v
DictSet(d, k, v) == [n \in DOMAIN d \cup {k} |-> IF n = k THEN v ELSE d[n]]

\* headers.setdefault(k, v)
DictSetDefault(d, k, v) == IF k \in DOMAIN d THEN d ELSE DictSet(d, k, v)

\* The forwarded headers with the server's key as a default only: a key the
\* client supplies is kept.
ForwardedHeadersClientFirst(request, api_key) ==
    LET headers == DictPop(DictOfHeaders(RequestHeaders(request.headers)), "host")
    IN  DictSet(DictSetDefault(headers, "x-api-key", api_key),
                "anthropic-dangerous-direct-browser-access", "true")

\* headers = dict(request.headers); headers.pop("host", None);
\* headers["x-api-key"] = api_key; headers["anthropic-..."] = "true"
ForwardedHeaders(request, api_key) ==
    LET headers == DictPop(DictOfHeaders(RequestHeaders(request.headers)), "host")
    IN  DictSet(DictSet(headers, "x-api-key", api_key),
                "anthropic-dangerous-direct-browser-access", "true")

\* anthropic_path = f"/v1/{path}" if path else "/v1"; url = base + path
AnthropicUrl(path) ==
    IF path # "" THEN <<ANTHROPIC_BASE, "/v1/", path>> ELSE <<ANTHROPIC_BASE, "/v1">>

\* proxy_to_anthropic(request, path): 503 without a configured key; else the
\* request goes upstream, whose answer (a status code, or an httpx.HTTPError
\* that becomes 502) is `upstream'.  The log records the request, what was
\* sent upstream (<<>> when nothing was) and the status answered.
proxy_to_anthropic(request, upstream) ==
    LET api_key == proxy.CLAUDE_API_KEY
        sent == [method |-> request.method, url |-> AnthropicUrl(request.path),
                 headers |-> ForwardedHeaders(request, api_key),
                 content |-> request.body]
        entry == IF api_key = ""
                     THEN [request |-> request, upstream |-> <<>>, status |-> 503]
                 ELSE IF upstream = 0
                     THEN [request |-> request, upstream |-> <<sent>>, status |-> 502]
                 ELSE [request |-> request, upstream |-> <<sent>>, status |-> upstream]
    IN  /\ nops < MaxOps
        /\ nops' = nops + 1
        /\ proxy' = [proxy EXCEPT !.log = @ \cup {entry}]
        /\ UNCHANGED <<schema, now, tables, ret, hist, cycle, pool, calls, collector,
                       main, db>>

\* SpecProxy: the proxy with and without a configured key handles requests
\* that carry no key, a key, a key under a capitalised header name, and two
\* keys; the upstream answers 200 or 529 or fails (0).
ApiKeys == {"", "sk-server"}

ClientKeyHeaders ==
    {<<>>,
     <<<<"x-api-key", "sk-client-1">>>>,
     <<<<"X-Api-Key", "sk-client-2">>>>,
     <<<<"x-api-key", "sk-client-1">>, <<"x-api-key", "sk-client-2">>>>}

Requests ==
    {[method |-> me, path |-> p, headers |-> <<<<"Host", "api.example">>>> \o k,
      body |-> "{}"] : me \in {"GET", "POST"}, p \in {"", "messages"},
                       k \in ClientKeyHeaders}

UpstreamAnswers == {0, 200, 529}

InitProxy ==
    /\ schema = TRUE
    /\ now = 0
    /\ war_status = <<>>
    /\ statistics = <<>>
    /\ planet_status = {}
    /\ campaigns = {}
    /\ assignments = {}
    /\ dispatches = {}
    /\ planet_events = {}
    /\ system_status = {}
    /\ ret = NoCall
    /\ hist = HistInit
    /\ cycle = CycleInit
    /\ pool = 0
    /\ calls = [t \in Threads |-> NotCalled]
    /\ collector = CollectorInit
    /\ proxy \in {ProxyState(key) : key \in ApiKeys}
    /\ db = DatabaseInit
    /\ main = "init"
    /\ nops = 0

NextProxy == \E request \in Requests, u \in UpstreamAnswers : proxy_to_anthropic(request, u)

SpecProxy == InitProxy /\ [][NextProxy]_vars

(***************************************************************************)
(* The lazy creation of the pool.  _get_pool tests `self._pool is None'    *)
(* and, if so, constructs a ThreadedConnectionPool, which opens minconn    *)
(* connections, and assigns it; nothing serialises the threads between the *)
(* test and the assignment.  db.pools lists the pools constructed so far,  *)
(* db._pool is the index of the one the Database refers to, 0 for None.    *)
(***************************************************************************)
DEFAULT_POOL_MIN_CONN == 2

\* if self._pool is None:  (else: return self._pool)
get_pool_is_none(t) ==
    /\ db.pc[t] = "idle"
    /\ db' = IF db._pool = 0
                 THEN [db EXCEPT !.pc[t] = "creating"]
                 ELSE [db EXCEPT !.pc[t] = "returned", !.got[t] = db._pool]
    /\ UNCHANGED <<schema, now, tables, ret, hist, cycle, pool, calls, collector, main,
                   proxy, nops>>

\* self._pool = pool.ThreadedConnectionPool(minconn, maxconn, dsn); return self._pool
get_pool_create(t) ==
    /\ db.pc[t] = "creating"
    /\ nops < MaxOps
    /\ nops' = nops + 1
    /\ db' = [db EXCEPT !.pools = Append(@, [closed |-> FALSE,
                                             open |-> DEFAULT_POOL_MIN_CONN]),
                        !._pool = Len(db.pools) + 1,
                        !.pc[t] = "returned",
                        !.got[t] = Len(db.pools) + 1]
    /\ UNCHANGED <<schema, now, tables, ret, hist, cycle, pool, calls, collector, main,
                   proxy>>

\* The caller of _get_pool goes on with the pool it got, and is done.
get_pool_return(t) ==
    /\ db.pc[t] = "returned"
    /\ db' = [db EXCEPT !.pc[t] = "idle", !.got[t] = 0]
    /\ UNCHANGED <<schema, now, tables, ret, hist, cycle, pool, calls, collector, main,
                   proxy, nops>>

\* close_pool: closeall() on the pool the Database refers to; self._pool = None
close_pool ==
    /\ db._pool # 0
    /\ db' = [db EXCEPT !.pools[db._pool] = [closed |-> TRUE, open |-> 0],
                        !._pool = 0]
    /\ UNCHANGED <<schema, now, tables, ret, hist, cycle, pool, calls, collector, main,
                   proxy, nops>>

\* SpecLazy: threads perform operations, the first of them at the same time,
\* and the application closes the pool; at most MaxOps pools are constructed.
NextLazy ==
    \/ \E t \in Threads : get_pool_is_none(t)
    \/ \E t \in Threads : get_pool_create(t)
    \/ \E t \in Threads : get_pool_return(t)
    \/ close_pool

SpecLazy == Init /\ [][NextLazy]_vars

\* Planet events under both spellings: complete in snake_case and in
\* camelCase, on planet 0, without a planet index, and without an id.
SpelledEvents ==
    {[id |-> PyInt(1), planet_index |-> PyInt(1), event_type |-> PyStr("storm")],
     [id |-> PyInt(2), planetIndex |-> PyInt(2), eventType |-> PyStr("storm")],
     [id |-> PyInt(1), planet_index |-> PyInt(0), event_type |-> PyStr("storm")],
     [id |-> PyInt(1), eventType |-> PyStr("storm")],
     [planet_index |-> PyInt(1), event_type |-> PyStr("storm")]}

\* SpecEvents: batches of planet events in both spellings.
NextEvents ==
    \/ \E d \in Batches(SpelledEvents) : Free(save_planet_events(d, NoFault))
    \/ \E d \in Batches(SpelledEvents) : Free(save_planet_events(d, Fault("execute", 1)))

SpecEvents == Init /\ [][NextEvents]_vars

(***************************************************************************)
(* Properties.                                                             *)
(***************************************************************************)
RowsOf(T, field, key) == {r \in T : r[field] = key}

\* C2: last write wins for planets.  After save_planet_status calls that all
\* returned True, get_planet_status(k) returns the payload of the most recent
\* of them for k (None if there was none), and the row of k carries the
\* timestamp of that write.
C2_LastWriteWins ==
    ~hist.planetFail =>
        /\ \A k \in Keys :
               IF hist.lastOk[k] = PyNone
                   THEN RowsOf(planet_status, "planet_index", k) = {}
                   ELSE /\ RowsOf(planet_status, "planet_index", k) # {}
                        /\ \A r \in RowsOf(planet_status, "planet_index", k) :
                               r.timestamp = hist.lastOk[k].timestamp
        /\ (ret.op = "get_planet_status" /\ ret.fault = NoFault) =>
               /\ ~ret.raised
               /\ ret.result = IF hist.lastOk[ret.args[1]] = PyNone THEN PyNone
                               ELSE hist.lastOk[ret.args[1]].data

\* A planet saved twice, with a different payload at a later time, and read.
C2_Witness ==
    /\ ~hist.planetFail
    /\ "planet_status" \in hist.rewritten
    /\ ret.op = "get_planet_status" /\ ret.fault = NoFault
    /\ ret.result = [name |-> PyStr("Y")]
    /\ hist.lastOk[ret.args[1]] # PyNone
    /\ hist.lastOk[ret.args[1]].timestamp > 0

\* C6: get_latest_planets_snapshot returns exactly the payloads of the rows
\* whose timestamp is the maximum of planet_status, by ascending planet_index,
\* and None, never an empty list, when there is no row.
C6_LatestPlanetsSnapshot ==
    (ret.op = "get_latest_planets_snapshot" /\ ret.fault = NoFault) =>
        /\ ~ret.raised
        /\ ret.result # PyList(<<>>)
        /\ IF planet_status = {} THEN ret.result = PyNone
           ELSE LET newest == {r \in planet_status :
                                  \A q \in planet_status : q.timestamp <= r.timestamp}
                IN  /\ ret.result.t = "list"
                    /\ Len(ret.result.v) = Cardinality(newest)
                    /\ \A r \in newest :
                           ret.result.v[1 + Cardinality({q \in newest :
                               q.planet_index < r.planet_index})] = r.data

\* Two planets at the newest timestamp, returned in index order.
C6_Witness ==
    /\ ret.op = "get_latest_planets_snapshot" /\ ret.fault = NoFault
    /\ ret.result = PyList(<<[name |-> PyStr("Y")], [name |-> PyStr("X")]>>)
    /\ now > 0

\* C7: after a collector cycle that saved every planet successfully,
\* get_latest_planets_snapshot returns the records of all the planets of that
\* cycle.
C7_SnapshotHoldsWholeCycle ==
    (/\ cycle.phase = "done" /\ cycle.ok
     /\ ret.op = "get_latest_planets_snapshot" /\ ret.fault = NoFault) =>
        /\ ret.result.t = "list"
        /\ Len(ret.result.v) = Cardinality(Keys)


(***************************************************************************)
(* What the claims about campaigns mean by an expiresAt: the instant, in   *)
(* hours UTC, that each ISO 8601 text denotes (a text without a zone is    *)
(* read as UTC).  Every other value is absent or unparseable.              *)
(***************************************************************************)
UtcInstant ==
    [x \in {"2025-01-01T01:00:00Z", "2025-01-01T02:00:00",
            "2025-01-01T04:00:00+02:00"} |->
        CASE x = "2025-01-01T01:00:00Z" -> 1
          [] x = "2025-01-01T02:00:00" -> 2
          [] x = "2025-01-01T04:00:00+02:00" -> 2]

Parseable(data) ==
    /\ "expiresAt" \in DOMAIN data
    /\ data.expiresAt.t = "str"
    /\ data.expiresAt.v \in DOMAIN UtcInstant

ExpiresAt(data) == UtcInstant[data.expiresAt.v]

\* The step is a call of op that is made at time `now' and returns result.
Returned(op, result) ==
    /\ now' = now
    /\ ret'.op = op
    /\ ~ret'.raised
    /\ ret'.result = result

\* C3, as claimed: the status save_campaign stores is 'expired' exactly when
\* expiresAt is parseable and strictly earlier than the write's now, and
\* 'active' in every other case.
C3_ExpiredIffStrictlyPast ==
    [][Returned("save_campaign", PyTrue) =>
           LET data == ret'.args[3]
               rows == RowsOf(campaigns', "campaign_id", ret'.args[1])
           IN  /\ rows # {}
               /\ \A r \in rows :
                      r.status = IF Parseable(data) /\ ExpiresAt(data) < now
                                     THEN "expired" ELSE "active"]_vars

\* C3, amended: the status save_campaign stores is 'expired' exactly when
\* expiresAt is parseable and not later than the write's now (now < expiresAt
\* is false), and 'active' in every other case: absent, empty, not a string,
\* unparseable, or later than now.
C3_ExpiredIffNotFuture ==
    [][Returned("save_campaign", PyTrue) =>
           LET data == ret'.args[3]
               rows == RowsOf(campaigns', "campaign_id", ret'.args[1])
           IN  /\ rows # {}
               /\ \A r \in rows :
                      r.status = IF Parseable(data) /\ ExpiresAt(data) <= now
                                     THEN "expired" ELSE "active"]_vars

\* A campaign written at the very instant of its expiresAt, stored 'expired',
\* beside one with an unparseable expiresAt, stored 'active'.
C3_Witness ==
    /\ ret.op = "save_campaign" /\ ret.result = PyTrue
    /\ \E r \in campaigns :
           /\ Parseable(r.data) /\ ExpiresAt(r.data) = r.timestamp
           /\ r.data.expiresAt.v = "2025-01-01T04:00:00+02:00"
           /\ r.status = "expired"
    /\ \E r \in campaigns :
           /\ PyGet(r.data, "expiresAt") = PyStr("not-a-date")
           /\ r.status = "active"

\* C4: a campaign saved before its expiresAt is stored 'active'; when the same
\* id is saved again, payload unchanged, after expiresAt has passed, the
\* single row of that id is stored 'expired'.
C4_ResaveAfterExpiry ==
    [][Returned("save_campaign", PyTrue) =>
           LET id == ret'.args[1]
               data == ret'.args[3]
               rows == RowsOf(campaigns', "campaign_id", id)
           IN  /\ (Parseable(data) /\ now < ExpiresAt(data)) =>
                      (rows # {} /\ \A r \in rows : r.status = "active")
               /\ (/\ Parseable(data) /\ ExpiresAt(data) < now
                   /\ \E q \in campaigns :
                          /\ q.campaign_id = id /\ q.data = data
                          /\ q.status = "active" /\ q.timestamp < ExpiresAt(data)) =>
                      /\ Cardinality(rows) = 1
                      /\ \A r \in rows : r.status = "expired"]_vars

\* The active row of a campaign has been overwritten by a save of the same
\* payload made after the expiry.
C4_Witness ==
    /\ ret.op = "save_campaign" /\ ret.result = PyTrue
    /\ ret.args[1] \in hist.reexpired
    /\ \E r \in campaigns :
           /\ r.campaign_id = ret.args[1] /\ r.data = ret.args[3]
           /\ r.status = "expired" /\ ExpiresAt(r.data) < r.timestamp

\* C5: get_active_campaigns returns only campaigns stored 'active', never one
\* whose expiresAt is strictly before now at query time, and it returns every
\* campaign stored 'active' whose expiresAt is absent or unparseable.
C5_ActiveCampaigns ==
    [][(now' = now /\ ret'.op = "get_active_campaigns") =>
           /\ ~ret'.raised
           /\ ret'.result.t = "list"
           /\ \A i \in 1..Len(ret'.result.v) :
                  LET c == ret'.result.v[i] IN
                  /\ \E r \in campaigns : r.data = c /\ r.status = "active"
                  /\ ~(Parseable(c) /\ ExpiresAt(c) < now)
           /\ ret'.fault = NoFault =>
                  \A r \in campaigns :
                      (r.status = "active" /\ ~Parseable(r.data)) =>
                          \E i \in 1..Len(ret'.result.v) : ret'.result.v[i] = r.data]_vars

\* A read that leaves out a campaign still stored 'active' (expired since it
\* was written) and returns one whose expiresAt is unparseable.
C5_Witness ==
    /\ ret.op = "get_active_campaigns" /\ ret.fault = NoFault
    /\ \E r \in campaigns :
           /\ r.status = "active" /\ Parseable(r.data)
           /\ \A i \in 1..Len(ret.result.v) : ret.result.v[i] # r.data
    /\ \E i \in 1..Len(ret.result.v) :
           PyGet(ret.result.v[i], "expiresAt") = PyStr("not-a-date")

(***************************************************************************)
(* The upsert tables and the save operations.                              *)
(***************************************************************************)
SaveOps ==
    {"save_war_status", "save_statistics", "save_planet_status", "save_campaign",
     "save_assignment", "save_assignments", "save_dispatch", "save_dispatches",
     "save_planet_event", "save_planet_events", "update_system_status"}

BatchOps == {"save_assignments", "save_dispatches", "save_planet_events"}

OneRowPerKey(T, field) == \A r, q \in T : r[field] = q[field] => r = q

\* C1: after any sequence of save operations, single or batch, succeeding or
\* failing, every upsert table holds at most one row per natural key.
C1_OneRowPerKey ==
    /\ OneRowPerKey(planet_status, "planet_index")
    /\ OneRowPerKey(campaigns, "campaign_id")
    /\ OneRowPerKey(assignments, "assignment_id")
    /\ OneRowPerKey(dispatches, "dispatch_id")
    /\ OneRowPerKey(planet_events, "event_id")
    /\ OneRowPerKey(system_status, "key")

\* A planet saved a second time, with another payload: its one row holds the
\* second payload.
C1_Witness ==
    /\ "planet_status" \in hist.rewritten
    /\ ret.op = "save_planet_status" /\ ret.result = PyTrue
    /\ planet_status = {[planet_index |-> ret.args[1], data |-> [name |-> PyStr("Y")],
                         timestamp |-> now]}

\* The [key, data] of the rows of the table that batch operation op writes.
Stored(op, a, d, e) ==
    CASE op = "save_assignments" -> {[key |-> r.assignment_id, data |-> r.data] : r \in a}
      [] op = "save_dispatches" -> {[key |-> r.dispatch_id, data |-> r.data] : r \in d}
      [] op = "save_planet_events" -> {[key |-> r.event_id, data |-> r.data] : r \in e}

\* The item has its identity: an id and, for a planet event, a planet index
\* under either spelling.
CarriesId(op, item) ==
    /\ "id" \in DOMAIN item
    /\ item.id # PyNone
    /\ op = "save_planet_events" =>
           ("planet_index" \in DOMAIN item \/ "planetIndex" \in DOMAIN item)

\* C8: a batch save that meets no fault returns True and has upserted every
\* item that carries an id, whatever the value of the id, skipping only the
\* items that lack it; an empty batch returns True and writes nothing.
C8_BatchSkipsOnlyMissingId ==
    [][(ret'.op \in BatchOps /\ ret'.fault = NoFault /\ schema) =>
           LET data == ret'.args[1]
               rows == Stored(ret'.op, assignments', dispatches', planet_events')
           IN  /\ Returned(ret'.op, PyTrue)
               /\ \A j \in 1..Len(data) :
                      CarriesId(ret'.op, data[j]) =>
                          [key |-> data[j].id.v, data |-> data[j]] \in rows
               /\ data = <<>> => UNCHANGED tables]_vars

C10_EveryFaultReturnsFalse ==
    ret.op \in SaveOps =>
        /\ ~ret.raised
        /\ ret.fault # NoFault => ret.result = PyFalse

\* C10, amended: no save operation raises; it returns True or False, and
\* False for every fault on its own path (acquiring the connection,
\* json.dumps, execute, commit, releasing the connection).  A fault inside
\* the _init_db call that save_war_status makes first is swallowed there and
\* does not by itself make the save return False.
C10_NeverRaises ==
    ret.op \in SaveOps =>
        /\ ~ret.raised
        /\ ret.result \in {PyTrue, PyFalse}
        /\ ret.fault \notin ({NoFault} \cup InitDbFaults) => ret.result = PyFalse

\* A save whose payload json.dumps cannot serialise has returned False, after
\* a save_war_status that returned True.
C10_Witness ==
    /\ ret.op \in SaveOps
    /\ ret.fault = Fault("dumps", 1)
    /\ ~ret.raised /\ ret.result = PyFalse
    /\ war_status # <<>>

(***************************************************************************)
(* The read accessors.                                                     *)
(***************************************************************************)
OptionalReads ==
    {"get_latest_war_status", "get_latest_statistics", "get_planet_status",
     "get_latest_planets_snapshot", "get_latest_campaigns_snapshot",
     "get_latest_factions_snapshot", "get_latest_biomes_snapshot",
     "get_system_status"}

ListReads ==
    {"get_active_campaigns", "get_assignment", "get_dispatches", "get_planet_events",
     "get_planet_status_history", "get_statistics_history"}

\* C11: no read accessor raises; under a lower-layer fault (no connection, a
\* failing query, a missing table, a connection that cannot be released) an
\* Optional-returning accessor returns None and a list-returning accessor
\* returns the empty list.
C11_ReadsNeverRaise ==
    /\ ret.op \in OptionalReads =>
           /\ ~ret.raised
           /\ (ret.fault # NoFault \/ ~schema) => ret.result = PyNone
    /\ ret.op \in ListReads =>
           /\ ~ret.raised
           /\ (ret.fault # NoFault \/ ~schema) => ret.result = PyList(<<>>)

\* A query that failed on a store holding a dispatch: the empty list.
C11_Witness ==
    /\ ret.op = "get_dispatches"
    /\ ret.fault = Fault("execute", 1)
    /\ dispatches # {}
    /\ ~ret.raised /\ ret.result = PyList(<<>>)

(***************************************************************************)
(* Planet events in the two spellings.                                     *)
(***************************************************************************)
\* The same logical event in the other spelling.
Respell(event) ==
    LET other == [k \in {"planet_index", "planetIndex", "event_type", "eventType"} |->
                     CASE k = "planet_index" -> "planetIndex"
                       [] k = "planetIndex" -> "planet_index"
                       [] k = "event_type" -> "eventType"
                       [] k = "eventType" -> "event_type"]
        renamed == {IF k \in DOMAIN other THEN other[k] ELSE k : k \in DOMAIN event}
    IN  [k \in renamed |-> IF k \in DOMAIN other THEN event[other[k]] ELSE event[k]]

\* The indexed columns of the planet_events rows.
EventColumns(T) ==
    {[event_id |-> r.event_id, planet_index |-> r.planet_index,
      event_type |-> r.event_type, timestamp |-> r.timestamp] : r \in T}

\* C12: save_planet_events stores the same event_id, planet_index and
\* event_type columns for a batch as it would for the same batch with every
\* event written in the other spelling; and the columns it stores for an
\* event are the planet index and the event type the event gives under the
\* spelling it uses.
C12_SpellingsStoreSameColumns ==
    [][ret'.op = "save_planet_events" =>
           LET data == ret'.args[1]
               respelled == [j \in DOMAIN data |-> Respell(data[j])]
           IN  /\ EventColumns(planet_events') =
                      EventColumns(Batch("planet_events", planet_events, respelled,
                                         ret'.fault, now).rows)
               /\ ret'.result = PyTrue =>
                      \A r \in planet_events' :
                          \A j \in DOMAIN data :
                              r.data = data[j] =>
                                  /\ PyInt(r.planet_index) \in
                                         {PyGet(data[j], "planet_index"),
                                          PyGet(data[j], "planetIndex")}
                                  /\ r.event_type \in
                                         {PyGet(data[j], "event_type"),
                                          PyGet(data[j], "eventType"),
                                          PyStr("unknown")}]_vars

\* A batch has stored an event given in camelCase.
C12_Witness ==
    /\ ret.op = "save_planet_events" /\ ret.result = PyTrue
    /\ \E r \in planet_events :
           /\ r.data = [id |-> PyInt(2), planetIndex |-> PyInt(2),
                        eventType |-> PyStr("storm")]
           /\ r.event_id = 2 /\ r.planet_index = 2 /\ r.event_type = PyStr("storm")
           /\ \E j \in DOMAIN ret.args[1] : ret.args[1][j] = r.data

\* The event has an id and a planet index under at least one spelling.
HasIdAndPlanetIndex(event) ==
    /\ PyGet(event, "id") # PyNone
    /\ \/ PyGet(event, "planet_index") # PyNone
       \/ PyGet(event, "planetIndex") # PyNone

\* C13: save_planet_events upserts every item that has an id and a planet
\* index under at least one of the two spellings, whatever the planet index.
C13_EventsSkippedOnlyWhenIncomplete ==
    [][(ret'.op = "save_planet_events" /\ ret'.fault = NoFault /\ schema) =>
           \A j \in DOMAIN ret'.args[1] :
               HasIdAndPlanetIndex(ret'.args[1][j]) =>
                   \E r \in planet_events' : r.event_id = ret'.args[1][j].id.v]_vars

(***************************************************************************)
(* The campaigns snapshot.                                                 *)
(***************************************************************************)
\* C14: get_latest_campaigns_snapshot returns None when there is no campaign
\* row, and otherwise one payload per campaign_id, the payload of that
\* campaign's row whatever its status, in an order of non-increasing row
\* timestamp.
C14_SnapshotHasEveryCampaign ==
    (ret.op = "get_latest_campaigns_snapshot" /\ ret.fault = NoFault /\ schema) =>
        IF campaigns = {} THEN ret.result = PyNone
        ELSE \E rows \in AnyOrder(campaigns) :
                 /\ ret.result = PyList(DataOf(rows))
                 /\ Len(rows) = Cardinality(CampaignKeysOf(campaigns))
                 /\ \A i, j \in DOMAIN rows :
                        i < j => rows[i].timestamp >= rows[j].timestamp

\* The snapshot has returned two campaigns saved at different times, one of
\* them expired.
C14_Witness ==
    /\ ret.op = "get_latest_campaigns_snapshot" /\ ret.fault = NoFault
    /\ ret.result.t = "list" /\ Len(ret.result.v) = 2
    /\ \E r, q \in campaigns :
           r.status = "expired" /\ q.status = "active" /\ r.timestamp < q.timestamp

(***************************************************************************)
(* The connection pool.                                                    *)
(***************************************************************************)
\* C15: every connection acquired from the pool is released on every exit
\* path, the paths of _init_db and of failing operations included: with no
\* operation in flight (every call of SpecPool runs to its end in one step)
\* no connection is checked out.
C15_EveryConnectionReleased == pool = 0

\* C16: with every connection of the pool checked out, a save call returns
\* False and a read returns None or an empty list; the call returns at once
\* (it is a step of the caller, not a wait for a connection).
C16_ExhaustedPoolFailsCalls ==
    [][pool >= MaxConn =>
           /\ ~ret'.raised
           /\ ret'.op \in {"save_war_status", "save_planet_status"} =>
                  ret'.result = PyFalse
           /\ ret'.op \in OptionalReads => ret'.result = PyNone
           /\ ret'.op \in ListReads => ret'.result = PyList(<<>>)]_vars

\* A save called on the exhausted pool has returned False, with rows in the
\* store and the schema in place.
C16_Witness ==
    /\ pool >= MaxConn
    /\ schema /\ war_status # <<>>
    /\ ret.op = "save_planet_status" /\ ret.result = PyFalse /\ ~ret.raised

(***************************************************************************)
(* Concurrent save_campaign calls.                                         *)
(***************************************************************************)
\* The row a call of save_campaign writes.
RowOfCall(call) ==
    [campaign_id |-> call.campaign_id, planet_index |-> call.planet_index,
     status |-> call.status, data |-> Jsonb(json_dumps(call.data.v)),
     timestamp |-> call.timestamp]

Committed(t) == calls[t].pc \in {"closing", "done"} /\ calls[t].result = PyTrue

\* C17: however the steps of concurrent save_campaign calls interleave, there
\* is one row per campaign_id, and its planet_index, status, data and
\* timestamp are those of one and the same committed call.
C17_RowFromOneCall ==
    /\ OneRowPerKey(campaigns, "campaign_id")
    /\ \A r \in campaigns : \E t \in Threads : Committed(t) /\ r = RowOfCall(calls[t])

\* Two calls for the same campaign and payload have both committed, with
\* different planet index and status; the row is the one of the call that
\* derived its status first.
C17_Witness ==
    \E t, u \in Threads :
        /\ t # u /\ Committed(t) /\ Committed(u)
        /\ calls[t].pc = "done" /\ calls[u].pc = "done"
        /\ calls[t].campaign_id = calls[u].campaign_id
        /\ calls[t].data = calls[u].data
        /\ calls[t].status = "active" /\ calls[u].status = "expired"
        /\ RowOfCall(calls[t]) \in campaigns

(***************************************************************************)
(* What the operations leave alone.                                        *)
(***************************************************************************)
ReadOps == OptionalReads \cup ListReads \cup {"get_upstream_status"}

\* C18: a read accessor, whether it succeeds or fails, leaves every row of
\* every table as it was: payloads, derived status, timestamps and the
\* upstream-availability flag; nor does it create the schema.
C18_ReadsLeaveStoreUnchanged ==
    [][ret'.op \in ReadOps => UNCHANGED <<schema, tables>>]_vars

\* get_upstream_status has read the flag that is stored as available.
C18_Witness ==
    /\ ret.op = "get_upstream_status" /\ ret.fault = NoFault /\ ret.result = PyTrue
    /\ \E r \in system_status : r.key = "upstream_api_available" /\ r.value = "true"

\* The natural keys present in each upsert table.
NaturalKeys ==
    [planet_status |-> {r.planet_index : r \in planet_status},
     campaigns |-> {r.campaign_id : r \in campaigns},
     assignments |-> {r.assignment_id : r \in assignments},
     dispatches |-> {r.dispatch_id : r \in dispatches},
     planet_events |-> {r.event_id : r \in planet_events},
     system_status |-> {r.key : r \in system_status}]

\* C19: no operation deletes a row: in every step the natural keys present
\* in each upsert table stay present, and war_status and statistics do not
\* get shorter.
C19_NoRowDeleted ==
    [][/\ \A table \in DOMAIN NaturalKeys : NaturalKeys[table] \subseteq NaturalKeys'[table]
       /\ Len(war_status') >= Len(war_status)
       /\ Len(statistics') >= Len(statistics)]_vars

\* A second planet has been saved and the first is still there.
C19_Witness ==
    /\ NaturalKeys.planet_status = Keys
    /\ ret.op = "save_planet_status" /\ ret.result = PyTrue

(***************************************************************************)
(* The append-only tables.                                                 *)
(***************************************************************************)
\* The step is a successful call of the save `op' (the saves of SpecWar are
\* counted, its reads and the clock are not).
Saved(op) == nops' = nops + 1 /\ ret'.op = op /\ ret'.result = PyTrue

\* The table after the save: the rows it had, then one row of the payload.
Appended(T, data) == Append(T, [data |-> Jsonb(json_dumps(data)), timestamp |-> now])

\* Every successful save adds exactly one row and leaves every other row as
\* it was.
SavesAppendOneRow ==
    /\ Saved("save_war_status") =>
           /\ war_status' = Appended(war_status, ret'.args[1])
           /\ statistics' = statistics
    /\ Saved("save_statistics") =>
           /\ statistics' = Appended(statistics, ret'.args[1])
           /\ war_status' = war_status

\* The accessor `op' has returned the payload of the last row of T, None
\* when T is empty.
ReturnsLastSaved(op, T) ==
    ret'.op = op =>
        /\ T = <<>> => ret'.result = PyNone
        /\ (T # <<>> /\ ret'.fault = NoFault) => ret'.result = RowData(T[Len(T)].data)

\* The accessor `op' has returned the payload of a row of T of the greatest
\* timestamp, None when T is empty.
ReturnsGreatestTimestamp(op, T) ==
    ret'.op = op =>
        /\ T = <<>> => ret'.result = PyNone
        /\ (T # <<>> /\ ret'.fault = NoFault) =>
               \E i \in DOMAIN T :
                   /\ ret'.result = RowData(T[i].data)
                   /\ \A k \in DOMAIN T : T[k].timestamp <= T[i].timestamp

\* C20, as claimed: every successful save_war_status or save_statistics adds
\* exactly one row and leaves the existing rows alone, and get_latest_war_status
\* and get_latest_statistics return the payload of the row saved last (None
\* when there is no row).
C20_LatestIsLastSaved ==
    [][/\ SavesAppendOneRow
       /\ ReturnsLastSaved("get_latest_war_status", war_status)
       /\ ReturnsLastSaved("get_latest_statistics", statistics)]_vars

\* C20, amended: every successful save_war_status or save_statistics adds
\* exactly one row and leaves the existing rows alone, and get_latest_war_status
\* and get_latest_statistics return the payload of a row whose timestamp is
\* the greatest (None when there is no row): the row saved last when its
\* timestamp is later than that of every other row, any of the rows that
\* share the greatest timestamp otherwise.
C20_LatestHasGreatestTimestamp ==
    [][/\ SavesAppendOneRow
       /\ ReturnsGreatestTimestamp("get_latest_war_status", war_status)
       /\ ReturnsGreatestTimestamp("get_latest_statistics", statistics)]_vars

\* Two rows saved at different times with different payloads; the accessor
\* has returned the second.
C20_Witness ==
    /\ Len(war_status) = 2
    /\ war_status[1].timestamp < war_status[2].timestamp
    /\ war_status[1].data # war_status[2].data
    /\ ret.op = "get_latest_war_status"
    /\ ret.result = RowData(war_status[2].data)

NameOf(entry) == IF entry.t = "dict" THEN PyGet(entry.v, "name") ELSE entry

\* C22: the lists returned by get_latest_factions_snapshot and
\* get_latest_biomes_snapshot never hold two entries of the same name.
C22_DerivedViewsUniqueByName ==
    (/\ ret.op \in {"get_latest_factions_snapshot", "get_latest_biomes_snapshot"}
     /\ ret.result.t = "list") =>
        \A i, j \in DOMAIN ret.result.v :
            i # j => NameOf(ret.result.v[i]) # NameOf(ret.result.v[j])

(***************************************************************************)
(* The upstream-availability flag.                                         *)
(***************************************************************************)
\* The stored flag: "true", "false", or "" when there is no flag row.
FlagOf(T) ==
    IF \E r \in T : r.key = "upstream_api_available"
        THEN (CHOOSE r \in T : r.key = "upstream_api_available").value
        ELSE ""

\* C23: after a successful set_upstream_status(b) the flag row holds b; no
\* call but a set changes system_status, so it holds b until the next set;
\* get_upstream_status returns True exactly when the store is reached and the
\* flag row holds "true": it returns b after set_upstream_status(b), and
\* False when there is no flag row or the store is unreachable.
C23_FlagRoundTrip ==
    [][/\ (/\ ret'.op = "update_system_status"
           /\ ret'.args[1] = "upstream_api_available"
           /\ ret'.result = PyTrue) => FlagOf(system_status') = ret'.args[2]
       /\ ret'.op # "update_system_status" => system_status' = system_status
       /\ ret'.op = "get_upstream_status" =>
              /\ ~ret'.raised
              /\ ret'.result = PyBool(/\ ret'.fault = NoFault
                                      /\ schema
                                      /\ FlagOf(system_status) = "true")]_vars

\* The flag was set to false at an earlier time and has been read as False.
C23_Witness ==
    /\ ret.op = "get_upstream_status" /\ ret.fault = NoFault /\ ret.result = PyFalse
    /\ \E r \in system_status :
           r.key = "upstream_api_available" /\ r.value = "false" /\ r.timestamp < now

\* C30: GET /api/health always answers 200, with upstream_api "online"
\* exactly when get_upstream_status() is true (the store is reached and the
\* flag row holds "true") and "offline" otherwise.
C30_HealthReportsFlag ==
    ret.op = "health" =>
        /\ ~ret.raised
        /\ ret.result.t = "dict"
        /\ ret.result.v.status_code = PyInt(200)
        /\ ret.result.v.upstream_api =
               IF ret.fault = NoFault /\ schema /\ FlagOf(system_status) = "true"
                   THEN PyStr("online") ELSE PyStr("offline")

\* The health endpoint has answered online, next to another key that holds
\* "false".
C30_Witness ==
    /\ ret.op = "health" /\ ret.fault = NoFault
    /\ FlagOf(system_status) = "true"
    /\ \E r \in system_status : r.key = "last_cycle" /\ r.value = "false"
    /\ ret.result.v.status_code = PyInt(200)
    /\ ret.result.v.upstream_api = PyStr("online")
(***************************************************************************)
(* The collector and its entry point.                                      *)
(***************************************************************************)
Lifecycle == {<<"Idle", "Running">>, <<"Running", "Stopping">>, <<"Stopping", "Idle">>}

StopCalled == main' # main /\ main' \in {"finally", "exited"}

\* C25: stop() is called by the signal handler and a second time by the
\* finally clause of the entry point; the second call changes nothing of the
\* collector.  A call of stop(), also one that arrives while the campaign's
\* upsert is in flight, changes neither a table nor the call in flight, and
\* the campaigns table never holds anything but the whole record of the call
\* that committed.
C25_StopIsIdempotent ==
    [][/\ (main = "finally" /\ main' = "exited") => collector' = collector
       /\ StopCalled => UNCHANGED <<tables, calls, pool>>
       /\ campaigns' # campaigns => campaigns' = {RowOfCall(calls'[1])}]_vars

\* Both calls of stop() were made while the campaign's statement was
\* executed and not yet committed.
C25_Witness ==
    /\ main = "exited"
    /\ collector.state = "Stopping" /\ collector.in_cycle
    /\ calls[1].pc = "executed"
ClassOrder ==
    <<"war_status", "statistics", "planets", "campaigns", "assignments",
      "dispatches", "planet_events">>

\* the table a step writes is the one of the class in position n of the cycle
WrittenInPosition(n) == collector.in_cycle /\ Len(collector.done) = n - 1

\* C26: in every cycle the classes are handled in the order war status,
\* statistics, planets, campaigns, assignments, dispatches, planet events:
\* what the cycle has handled is always a prefix of that order, each table is
\* written only in the position of its class, and assignments, dispatches
\* and planet events are written only after the planets and the campaigns of
\* the same cycle were handled.
C26_ClassesInOrder ==
    [][/\ collector'.done = SubSeq(ClassOrder, 1, Len(collector'.done))
       /\ war_status' # war_status => WrittenInPosition(1)
       /\ statistics' # statistics => WrittenInPosition(2)
       /\ planet_status' # planet_status => WrittenInPosition(3)
       /\ campaigns' # campaigns => WrittenInPosition(4)
       /\ assignments' # assignments => WrittenInPosition(5)
       /\ dispatches' # dispatches => WrittenInPosition(6)
       /\ planet_events' # planet_events => WrittenInPosition(7)
       /\ (\/ assignments' # assignments
           \/ dispatches' # dispatches
           \/ planet_events' # planet_events)
              => \E i, j \in 1..Len(collector.done) :
                     collector.done[i] = "planets" /\ collector.done[j] = "campaigns"]_vars

\* A cycle has handled every class and each of the seven tables holds what
\* it saved.
C26_Witness ==
    /\ ~collector.in_cycle /\ collector.cycles = 1
    /\ collector.done = ClassOrder
    /\ Len(war_status) = 1 /\ Len(statistics) = 1
    /\ planet_status # {} /\ campaigns # {}
    /\ assignments # {} /\ dispatches # {} /\ planet_events # {}
\* C27: the failures of a cycle are independent.  The step in which the
\* fetch or the save of a class fails leaves the cycle in flight, one class
\* further; a cycle ends only when all seven classes were handled; and a
\* cycle in flight in which a class has failed does come to that end, every
\* class after the failed one fetched and reconciled.
C27_FailuresAreIndependent ==
    /\ [][/\ (collector.in_cycle /\ collector'.failed /\ ~collector.failed)
                 => /\ collector'.in_cycle
                    /\ Len(collector'.done) = Len(collector.done) + 1
          /\ (collector.in_cycle /\ ~collector'.in_cycle)
                 => collector.done = ClassOrder]_vars
    /\ (collector.in_cycle /\ collector.failed)
           ~> (~collector.in_cycle /\ collector.failed /\ collector.done = ClassOrder)

\* The war status failed (no row of it was saved), and the cycle went on to
\* its end and saved the six other classes.
C27_Witness ==
    /\ ~collector.in_cycle /\ collector.cycles = 1
    /\ collector.failed /\ collector.done = ClassOrder
    /\ war_status = <<>>
    /\ Len(statistics) = 1 /\ planet_status # {} /\ campaigns # {}
    /\ assignments # {} /\ dispatches # {} /\ planet_events # {}
\* the step that ends a cycle
CycleEnds == collector.in_cycle /\ ~collector'.in_cycle

Outcome == IF collector.fetched THEN "true" ELSE "false"

C29_LoopSurvivesFailures ==
    /\ [][(collector.in_cycle /\ main' = main)
              => /\ collector'.state = collector.state
                 /\ collector'.is_running = collector.is_running]_vars
    /\ (/\ collector.state = "Running" /\ ~collector.in_cycle
        /\ collector.cycles \in 1..(MaxCycles - 1))
           ~> (collector.in_cycle \/ collector.state # "Running")

\* In the first cycle every fetch failed and the flag was set to "false";
\* the collector is Running and its second cycle is in flight.
C29_Witness ==
    /\ collector.state = "Running" /\ collector.in_cycle /\ collector.cycles = 1
    /\ FlagOf(system_status) = "false"
    /\ war_status = <<>> /\ statistics = <<>> /\ planet_status = {}
    /\ Len(collector.done) = 1
(***************************************************************************)
(* The list accessors.  get_latest_assignments, get_latest_dispatches and  *)
(* get_latest_planet_events are get_assignment, get_dispatches and         *)
(* get_planet_events (without planet_index) under another name.            *)
(***************************************************************************)
Smaller(a, b) == IF a < b THEN a ELSE b

\* key a sorts before key b (both being texts)
Before(a, b) == a.t = "str" /\ b.t = "str" /\ KeyLess(a, b)

\* C31: a list accessor called with limit n returns at most n items, and
\* get_dispatches, the store reached, returns the dispatches with the
\* greatest published values, as many as n allows, in descending order of
\* published.
C31_ListsHonourLimit ==
    /\ ret.op \in {"get_assignment", "get_dispatches"}
           => Len(ret.result.v) <= ret.args[1]
    /\ ret.op = "get_planet_events" => Len(ret.result.v) <= ret.args[2]
    /\ (ret.op = "get_dispatches" /\ ret.fault = NoFault /\ schema) =>
           LET result == ret.result.v IN
           /\ Len(result) = Smaller(ret.args[1], Cardinality(dispatches))
           /\ \A i \in DOMAIN result : \E r \in dispatches : result[i] = RowData(r.data)
           /\ \A i, j \in DOMAIN result :
                  i < j => ~Before(PublishedKey(result[i]), PublishedKey(result[j]))
           /\ \A r \in dispatches, i \in DOMAIN result :
                  Before(PublishedKey(result[i]), PublishedKey(RowData(r.data)))
                      => \E j \in DOMAIN result : result[j] = RowData(r.data)
(***************************************************************************)
(* The status of a campaign between its writes.                            *)
(***************************************************************************)
RowOf(T, campaign_id) == {r \in T : r.campaign_id = campaign_id}

\* the step is a save_campaign call for campaign_id
SavesCampaign(campaign_id) ==
    /\ now' = now
    /\ ret'.op = "save_campaign" /\ ret'.args[1] = campaign_id

\* C32: the status of a campaign is evaluated when it is written and at no
\* other time.  A step that is not a save_campaign for the campaign's id (the
\* clock advancing, a read, a save of another campaign) leaves its row, the
\* status with it, as it was; and get_latest_campaigns_snapshot, the store
\* reached, returns the payload of every row stored 'active', also of one
\* whose expiresAt has passed by the time of the read.
C32_StatusChangesOnlyOnWrite ==
    [][/\ \A c \in Keys : ~SavesCampaign(c) => RowOf(campaigns', c) = RowOf(campaigns, c)
       /\ (/\ ret'.op = "get_latest_campaigns_snapshot" /\ now' = now
           /\ ret'.fault = NoFault /\ schema)
              => \A r \in campaigns :
                     r.status = "active" =>
                         /\ r \in campaigns'
                         /\ ret'.result.t = "list"
                         /\ \E i \in DOMAIN ret'.result.v :
                                ret'.result.v[i] = RowData(r.data)]_vars

\* A campaign was stored 'active' at time 0; its expiresAt (01:00) has passed
\* and the snapshot read at time 2 has returned it, the row still 'active'.
C32_Witness ==
    /\ now = 2
    /\ ret.op = "get_latest_campaigns_snapshot" /\ ret.fault = NoFault
    /\ \E r \in campaigns :
           /\ r.status = "active" /\ r.timestamp = 0
           /\ RowData(r.data) = [name |-> PyStr("C"),
                                 expiresAt |-> PyStr("2025-01-01T01:00:00Z")]
           /\ ret.result.t = "list"
           /\ \E i \in DOMAIN ret.result.v : ret.result.v[i] = RowData(r.data)
(***************************************************************************)
(* The biomes snapshot.                                                    *)
(***************************************************************************)
\* the planets of the latest timestamp: the rows get_latest_planets_snapshot
\* returns
LatestPlanets == Latest(planet_status)

\* the biome of a planet when it is a dict with a non-empty name
NamedBiomes ==
    {b \in {PyGet(RowData(r.data), "biome") : r \in LatestPlanets} :
        b.t = "dict" /\ Truthy(PyGet(b.v, "name"))}

\* C33: get_latest_biomes_snapshot, the store reached, returns None when
\* there is no planet row or no planet of the latest timestamp has a dict
\* biome with a non-empty name; otherwise a list of biomes of those planets
\* that holds every such name exactly once.
C33_OneBiomePerName ==
    (ret.op = "get_latest_biomes_snapshot" /\ ret.fault = NoFault /\ schema) =>
        IF NamedBiomes = {} THEN ret.result = PyNone
        ELSE /\ ret.result.t = "list"
             /\ \A i \in DOMAIN ret.result.v : ret.result.v[i] \in NamedBiomes
             /\ \A i, j \in DOMAIN ret.result.v :
                    ret.result.v[i].v.name = ret.result.v[j].v.name => i = j
             /\ \A b \in NamedBiomes :
                    \E i \in DOMAIN ret.result.v : ret.result.v[i].v.name = b.v.name

\* Two planets of the latest timestamp have different biomes of the name
\* Desert, an older row has the biome Ice: one Desert biome is returned.
C33_Witness ==
    /\ ret.op = "get_latest_biomes_snapshot" /\ ret.fault = NoFault
    /\ ret.result.t = "list" /\ Len(ret.result.v) = 1
    /\ Cardinality(NamedBiomes) = 2
    /\ Cardinality(LatestPlanets) = 2
(***************************************************************************)
(* The schema on first use.                                                *)
(***************************************************************************)
\* C34: whichever save is the first operation on a store, fresh or not, the
\* tables exist once it has run and, no fault occurring, it returns True.
C34_FirstSaveSucceeds ==
    (nops = 1 /\ ret.op # "none" /\ ret.fault = NoFault) =>
        schema /\ ret.result = PyTrue

(***************************************************************************)
(* The result of a save and its write.                                     *)
(***************************************************************************)
\* The step is a call of a save operation (every step of SpecFaults is one).
SaveCall == nops' = nops + 1 /\ ret'.op \in SaveOps

\* The write of the single-record save that the step is stands in its table
\* after the step.
WriteCommitted ==
    LET a == ret'.args IN
    CASE ret'.op = "save_war_status" -> war_status' = Appended(war_status, a[1])
      [] ret'.op = "save_statistics" -> statistics' = Appended(statistics, a[1])
      [] ret'.op = "save_planet_status" ->
             \E r \in planet_status' :
                 r.planet_index = a[1] /\ r.data = a[2] /\ r.timestamp = now
      [] ret'.op = "save_campaign" ->
             \E r \in campaigns' :
                 r.campaign_id = a[1] /\ r.data = a[3] /\ r.timestamp = now
      [] ret'.op = "save_assignment" ->
             \E r \in assignments' :
                 r.assignment_id = a[1] /\ r.data = a[2] /\ r.timestamp = now
      [] ret'.op = "save_dispatch" ->
             \E r \in dispatches' :
                 r.dispatch_id = a[1] /\ r.data = a[2] /\ r.timestamp = now
      [] ret'.op = "save_planet_event" ->
             \E r \in planet_events' :
                 r.event_id = a[1] /\ r.data = a[4] /\ r.timestamp = now
      [] ret'.op = "update_system_status" ->
             \E r \in system_status' :
                 r.key = a[1] /\ r.value = a[2] /\ r.timestamp = now
      [] OTHER -> TRUE

\* C35, as claimed: a save returns True if and only if its write was
\* committed: a call that returns False leaves every table unchanged, and a
\* call whose write reached the store returns True, also when returning the
\* connection to the pool fails after the commit.
C35_TrueIffCommitted ==
    [][SaveCall =>
           /\ ret'.result = PyFalse => UNCHANGED tables
           /\ tables' # tables => ret'.result = PyTrue]_vars

\* C35, amended: a save that returns True has committed its write.  A save
\* that returns False has left every table unchanged, with one exception: when
\* returning the connection to the pool fails after the commit, the write is
\* committed and the call returns False all the same.
C35_TrueImpliesCommitted ==
    [][SaveCall =>
           /\ ret'.result = PyTrue => WriteCommitted
           /\ (ret'.result = PyFalse /\ ret'.fault.at # "putconn") => UNCHANGED tables
           /\ ret'.fault.at = "putconn" =>
                  /\ ret'.result = PyFalse
                  /\ schema => WriteCommitted]_vars

\* save_planet_status has failed to return its connection after the commit:
\* it returned False and its row is in the store.
C35_Witness ==
    /\ ret.op = "save_planet_status"
    /\ ret.fault = Fault("putconn", 0)
    /\ ret.result = PyFalse
    /\ \E r \in planet_status : r.planet_index = ret.args[1] /\ r.data = ret.args[2]

(***************************************************************************)
(* The snapshot read under concurrent writes.                              *)
(***************************************************************************)
\* C36, as claimed: under writes of the collector that interleave with the
\* read, get_latest_planets_snapshot returns None only if no planet rows
\* exist: a call during which planet_status is never empty (rows are never
\* deleted, so one that found a row with its first query) returns a
\* non-empty list.
C36_NoneOnlyIfNoPlanets ==
    [][\A t \in Readers :
           (calls[t].pc = "fetched" /\ calls'[t].pc = "done") =>
               /\ planet_status # {}
               /\ ret'.result # PyNone
               /\ ret'.result.t = "list" /\ ret'.result.v # <<>>]_vars

(***************************************************************************)
(* The values of the status column.                                        *)
(***************************************************************************)
\* C37: the status column of every campaign row is 'active' or 'expired';
\* no sequence of save_campaign calls, whatever the payloads, stores
\* 'unknown' or any other value.
C37_StatusIsActiveOrExpired ==
    \A r \in campaigns : r.status \in {"active", "expired"}

\* A campaign saved without expiresAt and one saved with an expiresAt that is
\* empty or does not parse.
C37_Witness ==
    /\ \E r \in campaigns : "expiresAt" \notin DOMAIN r.data
    /\ \E r \in campaigns :
           /\ "expiresAt" \in DOMAIN r.data
           /\ r.data.expiresAt \in {PyStr("not-a-date"), PyStr(""), PyInt(7)}

(***************************************************************************)
(* The events of one planet.                                               *)
(***************************************************************************)
\* The events returned are events stored for the planet asked for.
EventsOfPlanet(result, planet_index) ==
    \A i \in DOMAIN result :
        \E r \in planet_events :
            r.planet_index = planet_index /\ RowData(r.data) = result[i]

\* C38: get_planet_events called with a planet_index, 0 included, returns only
\* events whose stored planet_index is that value, at most `limit' of them;
\* only without a planet_index (None) does it return events of all planets.
C38_EventsOfThePlanetOnly ==
    (ret.op = "get_planet_events" /\ ret.args[1] # PyNone) =>
        /\ EventsOfPlanet(ret.result.v, ret.args[1].v)
        /\ Len(ret.result.v) <= ret.args[2]

(***************************************************************************)
(* The credential the proxy forwards.                                      *)
(***************************************************************************)
\* The headers the client sent, its x-api-key headers left out.
WithoutClientKey(raw) ==
    LET F[i \in 0..Len(raw)] ==
            IF i = 0 THEN <<>>
            ELSE IF Lower(raw[i][1]) = "x-api-key" THEN F[i - 1]
            ELSE Append(F[i - 1], raw[i])
    IN  F[Len(raw)]

\* The two requests differ at most in the x-api-key the client supplied.
DifferOnlyInClientKey(a, b) ==
    /\ a.method = b.method
    /\ a.path = b.path
    /\ a.body = b.body
    /\ WithoutClientKey(a.headers) = WithoutClientKey(b.headers)

\* C39: the proxy forwards the credential the server holds: for two requests
\* that differ only in the client's x-api-key header the forwarded x-api-key
\* is the same, and it is CLAUDE_API_KEY; with CLAUDE_API_KEY empty the proxy
\* answers 503 and sends nothing upstream.
C39_ForwardsServerCredential ==
    /\ proxy.CLAUDE_API_KEY = "" =>
           \A a \in proxy.log : a.status = 503 /\ a.upstream = <<>>
    /\ proxy.CLAUDE_API_KEY # "" =>
           /\ \A a \in proxy.log :
                  /\ a.upstream # <<>>
                  /\ a.upstream[1].headers["x-api-key"] = proxy.CLAUDE_API_KEY
           /\ \A a, b \in proxy.log :
                  DifferOnlyInClientKey(a.request, b.request) =>
                      a.upstream[1].headers["x-api-key"]
                          = b.upstream[1].headers["x-api-key"]

\* Two requests that differ in the client's key, one of them under a
\* capitalised header name, have both been forwarded.
C39_Witness ==
    /\ proxy.CLAUDE_API_KEY # ""
    /\ \E a, b \in proxy.log :
           /\ DifferOnlyInClientKey(a.request, b.request)
           /\ a.request.headers # b.request.headers
           /\ \E i \in DOMAIN a.request.headers : a.request.headers[i][1] = "X-Api-Key"
           /\ a.upstream # <<>> /\ b.upstream # <<>>

(***************************************************************************)
(* The pools of one Database.                                              *)
(***************************************************************************)
\* The pools constructed and not closed.
LivePools == {i \in DOMAIN db.pools : ~db.pools[i].closed}

\* The connections the live pools hold open.
OpenConnections == Cardinality(LivePools) * DEFAULT_POOL_MIN_CONN

\* C40: a Database has at most one pool at a time, also when several threads
\* perform their first operation at once: every pool constructed and not
\* closed is the one the Database refers to (none is orphaned by a racing
\* lazy initialisation), so the open connections stay within maxconn.
C40_OnePoolPerDatabase ==
    /\ \A i \in LivePools : i = db._pool
    /\ Cardinality(LivePools) <= 1
    /\ OpenConnections <= MaxConn

====
